---- MODULE Spec2Model ----
(***************************************************************************)
(* A model of sage-whisper: the auth service with its password-reset       *)
(* token lifecycle (app/services/auth.py, app/routers/auth.py) and the     *)
(* voice-note transcription state machine (app/routers/voice_notes.py,     *)
(* app/services/transcription.py).                                         *)
(*                                                                         *)
(* Strings the code transforms (emails, display names, segment texts) are  *)
(* sequences of one-character strings, so that lower(), strip(), ILIKE and *)
(* " ".join() are computed and not assumed.  A nullable column holds <<>>  *)
(* (NULL / None) or <<v>>.                                                 *)
(***************************************************************************)
EXTENDS Integers, Sequences, FiniteSets, TLC

VARIABLES
    users,        \* table "user": sequence of rows, the row's id is its index
    now,          \* datetime.utcnow(), in minutes
    nextToken,    \* the next value secrets.token_urlsafe(32) returns
    call,         \* the last AuthService call: its arguments and what it returned
    http,         \* the HTTP response of the last auth route
    notes,        \* table "voice_note": id -> row, committed state
    transcripts,  \* table "transcript": set of committed rows
    segments,     \* table "transcript_segment": set of committed rows
    nextNoteId,   \* next voice_note.id
    nextTranscriptId, \* next transcript.id
    pc,           \* per transcribe request: where its handler stands
    req,          \* per transcribe request: the note its session has loaded (id, owner, file)
    loc,          \* per transcribe request: the handler's local variables
    resp,         \* per transcribe request: the last response it produced
    files,        \* the upload directory: the set of files on disk
    nextFile,     \* the next value uuid.uuid4() returns
    view,         \* the response of the last voice-note or transcript route
    transcription_service, \* the module global _transcription_service: None or a service
    services,     \* the TranscriptionService objects made: services[s] is the _model of s
    modelsLoaded  \* how many WhisperModel objects were constructed; they are numbered 1, 2, ..

authVars == <<users, now, nextToken, call, http>>
txVars == <<notes, transcripts, segments, nextNoteId, nextTranscriptId, pc, req, loc, resp>>
libVars == <<files, nextFile, view>>
mdlVars == <<transcription_service, services, modelsLoaded>>
vars == <<users, now, nextToken, call, http,
          notes, transcripts, segments, nextNoteId, nextTranscriptId, pc, req, loc, resp,
          files, nextFile, view,
          transcription_service, services, modelsLoaded>>

(***************************************************************************)
(* Bounds of the model.                                                    *)
(***************************************************************************)
MaxTokens == 2
MaxTime == 31
MaxNotes == 1
MaxUploads == 2
MaxSessionMinutes == 30

None == <<>>
Some(v) == <<v>>

(***************************************************************************)
(* Strings.                                                                *)
(***************************************************************************)
LowerChar(c) ==
    CASE c = "A" -> "a" [] c = "B" -> "b" [] c = "H" -> "h" [] c = "MP3" -> "mp3" [] OTHER -> c

\* str.lower()
lower(s) == [i \in 1..Len(s) |-> LowerChar(s[i])]

RECURSIVE lstrip(_)
lstrip(s) == IF s # <<>> /\ Head(s) = " " THEN lstrip(Tail(s)) ELSE s

RECURSIVE rstrip(_)
rstrip(s) == IF s # <<>> /\ s[Len(s)] = " " THEN rstrip(SubSeq(s, 1, Len(s) - 1)) ELSE s

\* str.strip()
strip(s) == rstrip(lstrip(s))

\* SQL LIKE: in the pattern p, % matches any run of characters and _ any one.
RECURSIVE like(_, _)
like(v, p) ==
    IF p = <<>> THEN v = <<>>
    ELSE IF Head(p) = "%" THEN like(v, Tail(p)) \/ (v # <<>> /\ like(Tail(v), p))
    ELSE IF v = <<>> THEN FALSE
    ELSE (Head(p) = "_" \/ Head(p) = Head(v)) /\ like(Tail(v), Tail(p))

\* Column.ilike(other): lower(column) LIKE lower(other); other is a LIKE pattern.
ilike(v, p) == like(lower(v), lower(p))

(***************************************************************************)
(* Auth service.                                                           *)
(***************************************************************************)
RESET_EXPIRE_MINUTES == 30

\* The inputs the routes are called with.
EmailInputs == {<<"a">>, <<"A">>, <<"b">>, <<"a", " ">>, <<"%">>}
Passwords == {"pw1", "pw2"}
DisplayNames == {<<" ", "n">>}
TokenInputs == 1..MaxTokens
TickSteps == {RESET_EXPIRE_MINUTES, RESET_EXPIRE_MINUTES + 1}

\* bcrypt.hashpw / bcrypt.checkpw (the salt is left out: checkpw accepts exactly
\* the password that was hashed)
hashpw(password) == <<"bcrypt", password>>
checkpw(password, hash) == hash = hashpw(password)

\* AuthResult
AuthResult(success, error, user_id, email, display_name) ==
    [success |-> success, error |-> error, user_id |-> user_id,
     email |-> email, display_name |-> display_name]
AuthFailure(error) == AuthResult(FALSE, Some(error), None, None, None)
AuthSuccess(us, i) == AuthResult(TRUE, None, Some(i), Some(us[i].email), Some(us[i].display_name))

\* What a service call did: the table afterwards, and either the value it
\* returned or the exception it raised.
Outcome(us, raised, result) == [users |-> us, raised |-> raised, result |-> result]

\* db.query(User).filter(User.email.ilike(email)): the ids of the matching rows
UsersByEmail(us, email) == {i \in 1..Len(us) : ilike(us[i].email, email)}

\* db.query(User).filter(User.password_reset_token == token)
UsersByToken(us, token) == {i \in 1..Len(us) : us[i].password_reset_token = Some(token)}

\* Mutant of register: the duplicate check compares the email as given, case and all.
register_case_sensitive(us, email, password, display_name) ==
    IF \E i \in 1..Len(us) : us[i].email = email
    THEN {Outcome(us, None, AuthFailure("Email already registered"))}
    ELSE IF \E i \in 1..Len(us) : us[i].email = strip(lower(email))
    THEN {Outcome(us, Some("IntegrityError"), None)}
    ELSE LET user == [email |-> strip(lower(email)),
                      password_hash |-> hashpw(password),
                      display_name |-> strip(display_name),
                      is_active |-> TRUE,
                      last_login_at |-> None,
                      password_reset_token |-> None,
                      password_reset_expires_at |-> None]
             us2 == Append(us, user)
         IN {Outcome(us2, None, AuthSuccess(us2, Len(us2)))}

\* AuthService.register: the possible outcomes (.first() has no ORDER BY)
register(us, email, password, display_name) ==
    IF UsersByEmail(us, email) # {}
    THEN {Outcome(us, None, AuthFailure("Email already registered"))}
    ELSE IF \E i \in 1..Len(us) : us[i].email = strip(lower(email))
    THEN \* the unique index on user.email rejects the INSERT at db.commit()
         {Outcome(us, Some("IntegrityError"), None)}
    ELSE LET user == [email |-> strip(lower(email)),
                      password_hash |-> hashpw(password),
                      display_name |-> strip(display_name),
                      is_active |-> TRUE,
                      last_login_at |-> None,
                      password_reset_token |-> None,
                      password_reset_expires_at |-> None]
             us2 == Append(us, user)
         IN {Outcome(us2, None, AuthSuccess(us2, Len(us2)))}

\* AuthService.authenticate at time t
authenticate(us, email, password, t) ==
    IF UsersByEmail(us, email) = {}
    THEN {Outcome(us, None, AuthFailure("Invalid email or password"))}
    ELSE {IF ~us[i].is_active
          THEN Outcome(us, None, AuthFailure("Account is deactivated"))
          ELSE IF ~checkpw(password, us[i].password_hash)
          THEN Outcome(us, None, AuthFailure("Invalid email or password"))
          ELSE LET us2 == [us EXCEPT ![i].last_login_at = Some(t)]
               IN Outcome(us2, None, AuthSuccess(us2, i))
          : i \in UsersByEmail(us, email)}

\* Mutant of request_password_reset: the expiry is not stored with the token.
request_password_reset_no_expiry(us, email, token, t) ==
    IF UsersByEmail(us, email) = {}
    THEN {Outcome(us, None, None)}
    ELSE {Outcome([us EXCEPT ![i].password_reset_token = Some(token)], None, Some(token))
          : i \in UsersByEmail(us, email)}

\* AuthService.request_password_reset at time t; token is the fresh random token.
\* The result is the token returned, or None.
request_password_reset(us, email, token, t) ==
    IF UsersByEmail(us, email) = {}
    THEN {Outcome(us, None, None)}
    ELSE {Outcome([us EXCEPT ![i].password_reset_token = Some(token),
                             ![i].password_reset_expires_at = Some(t + RESET_EXPIRE_MINUTES)],
                  None, Some(token))
          : i \in UsersByEmail(us, email)}

\* Mutant of ResetExpired: the token is already expired at its expiry time.
ResetExpired_at_expiry(user, t) ==
    \/ user.password_reset_expires_at = None
    \/ user.password_reset_expires_at[1] <= t

\* not user.password_reset_expires_at or user.password_reset_expires_at < utcnow()
ResetExpired(user, t) ==
    \/ user.password_reset_expires_at = None
    \/ user.password_reset_expires_at[1] < t

\* Mutant of reset_password: a successful reset leaves the token stored.
reset_password_token_kept(us, token, new_password, t) ==
    IF UsersByToken(us, token) = {}
    THEN {Outcome(us, None, AuthFailure("Invalid or expired reset link"))}
    ELSE {IF ResetExpired(us[i], t)
          THEN Outcome([us EXCEPT ![i].password_reset_token = None,
                                  ![i].password_reset_expires_at = None],
                       None, AuthFailure("Reset link has expired. Please request a new one."))
          ELSE LET us2 == [us EXCEPT ![i].password_hash = hashpw(new_password),
                                     ![i].last_login_at = Some(t)]
               IN Outcome(us2, None, AuthSuccess(us2, i))
          : i \in UsersByToken(us, token)}

\* Mutant of reset_password: a successful reset clears the reset fields and
\* leaves the password hash as it was.
reset_password_hash_kept(us, token, new_password, t) ==
    IF UsersByToken(us, token) = {}
    THEN {Outcome(us, None, AuthFailure("Invalid or expired reset link"))}
    ELSE {IF ResetExpired(us[i], t)
          THEN Outcome([us EXCEPT ![i].password_reset_token = None,
                                  ![i].password_reset_expires_at = None],
                       None, AuthFailure("Reset link has expired. Please request a new one."))
          ELSE LET us2 == [us EXCEPT ![i].password_reset_token = None,
                                     ![i].password_reset_expires_at = None,
                                     ![i].last_login_at = Some(t)]
               IN Outcome(us2, None, AuthSuccess(us2, i))
          : i \in UsersByToken(us, token)}

\* AuthService.reset_password at time t
reset_password(us, token, new_password, t) ==
    IF UsersByToken(us, token) = {}
    THEN {Outcome(us, None, AuthFailure("Invalid or expired reset link"))}
    ELSE {IF ResetExpired(us[i], t)
          THEN Outcome([us EXCEPT ![i].password_reset_token = None,
                                  ![i].password_reset_expires_at = None],
                       None, AuthFailure("Reset link has expired. Please request a new one."))
          ELSE LET us2 == [us EXCEPT ![i].password_hash = hashpw(new_password),
                                     ![i].password_reset_token = None,
                                     ![i].password_reset_expires_at = None,
                                     ![i].last_login_at = Some(t)]
               IN Outcome(us2, None, AuthSuccess(us2, i))
          : i \in UsersByToken(us, token)}

(***************************************************************************)
(* Auth routes (app/routers/auth.py).  Each action is one request: the     *)
(* route calls the service once and shapes the response.                   *)
(***************************************************************************)
Call(op, email, password, token, o) ==
    [op |-> op, email |-> email, password |-> password, token |-> token,
     raised |-> o.raised, result |-> o.result]

HttpResponse(status, detail, jwt) == [status |-> status, detail |-> detail, jwt |-> jwt]

\* An exception no handler catches: the framework answers 500.
ServerError == HttpResponse(500, None, None)

\* TokenResponse: jwt_service.create_token(user_id, email, display_name)
TokenResponse(result) == HttpResponse(200, None, result.user_id)

FORGOT_MESSAGE == "If an account exists with that email, a reset link has been generated. Check the server console."

\* forgot_password's response, given the token the service returned
ForgotResponse(token) == HttpResponse(200, Some(FORGOT_MESSAGE), None)

\* POST /api/v1/auth/register
route_register(email, password, display_name) ==
    /\ \E o \in register(users, email, password, display_name) :
        /\ users' = o.users
        /\ call' = Call("register", Some(email), Some(password), None, o)
        /\ http' = IF o.raised # None THEN ServerError
                   ELSE IF ~o.result.success THEN HttpResponse(400, o.result.error, None)
                   ELSE TokenResponse(o.result)
    /\ UNCHANGED <<now, nextToken>>
    /\ UNCHANGED txVars
    /\ UNCHANGED libVars
    /\ UNCHANGED mdlVars

\* POST /api/v1/auth/login
route_login(email, password) ==
    /\ \E o \in authenticate(users, email, password, now) :
        /\ users' = o.users
        /\ call' = Call("authenticate", Some(email), Some(password), None, o)
        /\ http' = IF ~o.result.success THEN HttpResponse(401, o.result.error, None)
                   ELSE TokenResponse(o.result)
    /\ UNCHANGED <<now, nextToken>>
    /\ UNCHANGED txVars
    /\ UNCHANGED libVars
    /\ UNCHANGED mdlVars

\* POST /api/v1/auth/forgot-password
route_forgot_password(email) ==
    /\ \E o \in request_password_reset(users, email, nextToken, now) :
        /\ o.result # None => nextToken <= MaxTokens
        /\ users' = o.users
        /\ call' = Call("request_password_reset", Some(email), None, None, o)
        /\ http' = ForgotResponse(o.result)
        /\ nextToken' = IF o.result # None THEN nextToken + 1 ELSE nextToken
    /\ now' = now
    /\ UNCHANGED txVars
    /\ UNCHANGED libVars
    /\ UNCHANGED mdlVars

\* POST /api/v1/auth/reset-password
route_reset_password(token, new_password) ==
    /\ \E o \in reset_password(users, token, new_password, now) :
        /\ users' = o.users
        /\ call' = Call("reset_password", None, Some(new_password), Some(token), o)
        /\ http' = IF ~o.result.success THEN HttpResponse(400, o.result.error, None)
                   ELSE TokenResponse(o.result)
    /\ UNCHANGED <<now, nextToken>>
    /\ UNCHANGED txVars
    /\ UNCHANGED libVars
    /\ UNCHANGED mdlVars

\* Time passes.
Tick(d) ==
    /\ now + d <= MaxTime
    /\ now' = now + d
    /\ UNCHANGED <<users, nextToken, call, http>>
    /\ UNCHANGED txVars
    /\ UNCHANGED libVars
    /\ UNCHANGED mdlVars

\* The table the process starts on holds one account that was deactivated out of
\* band: no code path of the repository clears is_active, the column is only read
\* (authenticate).  Its email and the emails the routes are called with bound the
\* table: the unique index on user.email admits one row per stored email.
DeactivatedUser ==
    [email |-> <<"b">>, password_hash |-> hashpw("pw1"), display_name |-> <<"n">>,
     is_active |-> FALSE, last_login_at |-> None,
     password_reset_token |-> None, password_reset_expires_at |-> None]

NoCall == [op |-> "none", email |-> None, password |-> None, token |-> None,
           raised |-> None, result |-> None]

NoView == [op |-> "none", user |-> 0, status |-> 0, detail |-> "", body |-> <<>>]

LibIdle ==
    /\ files = {}
    /\ nextFile = 1
    /\ view = NoView
    /\ transcription_service = None
    /\ services = <<>>
    /\ modelsLoaded = 0

AuthIdle ==
    /\ users = <<>>
    /\ now = 0
    /\ nextToken = 1
    /\ call = NoCall
    /\ http = HttpResponse(0, None, None)

UserIds == {1, 2}

TxIdle ==
    /\ LibIdle
    /\ notes = <<>>
    /\ transcripts = {}
    /\ segments = {}
    /\ nextNoteId = 1
    /\ nextTranscriptId = 1
    /\ pc = <<>>
    /\ req = <<>>
    /\ loc = <<>>
    /\ resp = <<>>

InitAuth ==
    /\ users = <<DeactivatedUser>>
    /\ now = 0
    /\ nextToken = 1
    /\ call = NoCall
    /\ http = HttpResponse(0, None, None)
    /\ TxIdle

NextAuth ==
    \/ \E e \in EmailInputs, p \in Passwords, d \in DisplayNames : route_register(e, p, d)
    \/ \E e \in EmailInputs, p \in Passwords : route_login(e, p)
    \/ \E e \in EmailInputs : route_forgot_password(e)
    \/ \E t \in TokenInputs, p \in Passwords : route_reset_password(t, p)
    \/ \E d \in TickSteps : Tick(d)

SpecAuth == InitAuth /\ [][NextAuth]_vars

(***************************************************************************)
(* Uploads (app/services/voice_note.py, app/routers/voice_notes.py).       *)
(*                                                                         *)
(* A file name is a sequence of atoms: ".", and runs of other characters   *)
(* ("a", "mp3", "MP3").  A content type is a sequence of two atoms, the    *)
(* type with its slash and the subtype.  An upload's body is its length in *)
(* bytes; the bytes written to disk are kept as the sequence of chunks     *)
(* written, each chunk the range of the body it holds.                     *)
(***************************************************************************)
ALLOWED_EXTENSIONS ==
    {<<".", "mp3">>, <<".", "m4a">>, <<".", "mp4">>, <<".", "wav">>,
     <<".", "webm">>, <<".", "ogg">>, <<".", "flac">>}

ALLOWED_MIME_TYPES ==
    {<<"audio/", "mpeg">>, <<"audio/", "mp4">>, <<"audio/", "x-m4a">>, <<"audio/", "wav">>,
     <<"audio/", "x-wav">>, <<"audio/", "webm">>, <<"audio/", "ogg">>, <<"audio/", "flac">>,
     <<"audio/", "x-flac">>, <<"video/", "mp4">>}

\* settings.MAX_UPLOAD_SIZE_MB, read from the environment: the model's
\* deployment sets it to MaxUploadMB.
MaxUploadMB == 1
MAX_UPLOAD_SIZE_MB == MaxUploadMB
MB == 1024 * 1024
chunk_size == 1024 * 64

\* Path(filename).suffix of a plain name: the name from its last dot on, unless
\* that dot opens or ends the name
suffix(filename) ==
    LET dots == {i \in 1..Len(filename) : filename[i] = "."}
    IN IF dots = {} THEN <<>>
       ELSE LET i == CHOOSE d \in dots : \A e \in dots : e <= d
            IN IF 1 < i /\ i < Len(filename) THEN SubSeq(filename, i, Len(filename)) ELSE <<>>

\* str.startswith("audio/")
startswith_audio(content_type) == content_type # <<>> /\ Head(content_type) = "audio/"

\* Mutant of validate_upload_metadata: the extension is compared as given.
validate_upload_metadata_case_sensitive(filename, content_type) ==
    LET ext == suffix(filename)
    IN IF ext \notin ALLOWED_EXTENSIONS
       THEN Some([error |-> "Unsupported file type", about |-> ext])
       ELSE IF /\ content_type # None
               /\ content_type[1] # <<>>
               /\ content_type[1] \notin ALLOWED_MIME_TYPES
               /\ ~startswith_audio(content_type[1])
               /\ content_type[1] # <<"video/", "mp4">>
       THEN Some([error |-> "Invalid content type", about |-> content_type[1]])
       ELSE None

\* VoiceNoteService.validate_upload_metadata: the error message, or None.
\* content_type is None or Some(string); an empty string is falsy.
validate_upload_metadata(filename, content_type) ==
    LET ext == lower(suffix(filename))
    IN IF ext \notin ALLOWED_EXTENSIONS
       THEN Some([error |-> "Unsupported file type", about |-> ext])
       ELSE IF /\ content_type # None
               /\ content_type[1] # <<>>
               /\ content_type[1] \notin ALLOWED_MIME_TYPES
               /\ ~startswith_audio(content_type[1])
               /\ content_type[1] # <<"video/", "mp4">>
       THEN Some([error |-> "Invalid content type", about |-> content_type[1]])
       ELSE None

max_bytes == MAX_UPLOAD_SIZE_MB * 1024 * 1024

Min(a, b) == IF a <= b THEN a ELSE b

\* A file of the upload directory: UPLOAD_DIR/<dir>/<name>, holding data
File(dir, name, data) == [dir |-> dir, name |-> name, data |-> data]

\* f"{uuid.uuid4()}{ext}"
StoredFilename(uuid, ext) == [uuid |-> uuid, ext |-> ext]

\* os.remove(path) if path.exists()
remove(fs, dir, name) == {f \in fs : ~(f.dir = dir /\ f.name = name)}

TooLarge(file_size) ==
    [error |-> "File too large", about |-> <<file_size \div MB, MAX_UPLOAD_SIZE_MB>>]

\* Mutant of stream: a body that reaches the cap exactly is refused.
RECURSIVE stream_rejects_at_cap(_, _, _)
stream_rejects_at_cap(size, file_size, written) ==
    LET chunk == Min(chunk_size, size - file_size)
    IN IF chunk = 0
       THEN [raised |-> None, file_size |-> file_size, written |-> written]
       ELSE IF file_size + chunk >= max_bytes
       THEN [raised |-> Some(TooLarge(file_size + chunk)),
             file_size |-> file_size + chunk, written |-> written]
       ELSE stream_rejects_at_cap(size, file_size + chunk,
                                  Append(written, [from |-> file_size, len |-> chunk]))

\* The while loop of store_file on a body of size bytes, file_size of them read
\* so far: upload.read(chunk_size) yields the next chunk, at most chunk_size
\* bytes and empty at the end of the body; the chunk is counted, the count is
\* tested against the cap, and then the chunk is written.
RECURSIVE stream(_, _, _)
stream(size, file_size, written) ==
    LET chunk == Min(chunk_size, size - file_size)
    IN IF chunk = 0
       THEN [raised |-> None, file_size |-> file_size, written |-> written]
       ELSE IF file_size + chunk > max_bytes
       THEN [raised |-> Some(TooLarge(file_size + chunk)),
             file_size |-> file_size + chunk, written |-> written]
       ELSE stream(size, file_size + chunk, Append(written, [from |-> file_size, len |-> chunk]))

\* Mutant of store_file: the partial file of an oversize upload stays on disk.
store_file_keeps_partial(fs, user_id, filename, size, uuid) ==
    LET stored_filename == StoredFilename(uuid, lower(suffix(IF filename = <<>> THEN <<"audio", ".", "bin">> ELSE filename)))
        s == stream(size, 0, <<>>)
        written == fs \cup {File(user_id, stored_filename, s.written)}
    IN [raised |-> s.raised, stored_filename |-> stored_filename, file_size |-> s.file_size,
        files |-> written]

\* VoiceNoteService.store_file: the file is opened for writing (created empty),
\* the body is streamed into it, and on ValueError the file is removed.  The
\* result: the exception or (stored_filename, file_size), and the disk afterwards.
store_file(fs, user_id, filename, size, uuid) ==
    LET stored_filename == StoredFilename(uuid, lower(suffix(IF filename = <<>> THEN <<"audio", ".", "bin">> ELSE filename)))
        s == stream(size, 0, <<>>)
        written == fs \cup {File(user_id, stored_filename, s.written)}
    IN [raised |-> s.raised, stored_filename |-> stored_filename, file_size |-> s.file_size,
        files |-> IF s.raised # None THEN remove(written, user_id, stored_filename) ELSE written]

\* VoiceNote(...), as create_voice_note inserts it at time t
VoiceNote(user_id, original_filename, stored_filename, file_size_bytes, mime_type, t) ==
    [user_id |-> user_id, status |-> "uploaded", duration_seconds |-> None,
     original_filename |-> original_filename, stored_filename |-> stored_filename,
     file_size_bytes |-> file_size_bytes, mime_type |-> mime_type, created_at |-> t]

View(op, user, status, detail, body) ==
    [op |-> op, user |-> user, status |-> status, detail |-> detail, body |-> body]

\* POST /api/v1/voice-notes/ by user u: validate_upload_metadata, store_file,
\* create_voice_note.  The clock has moved on since the last row was written.
upload_voice_note(u, filename, content_type, size) ==
    LET error == validate_upload_metadata(filename, content_type)
        stored == store_file(files, u, filename, size, nextFile)
        note == VoiceNote(u, IF filename = <<>> THEN <<"unknown">> ELSE filename,
                          stored.stored_filename, stored.file_size, content_type, now + 1)
    IN /\ IF error # None
          THEN /\ view' = View("upload", u, 400, error[1], None)
               /\ UNCHANGED <<notes, nextNoteId, files, nextFile, now>>
          ELSE /\ nextFile <= MaxUploads
               /\ nextFile' = nextFile + 1
               /\ files' = stored.files
               /\ IF stored.raised # None
                  THEN /\ view' = View("upload", u, 400, stored.raised[1], None)
                       /\ UNCHANGED <<notes, nextNoteId, now>>
                  ELSE /\ nextNoteId <= MaxNotes
                       /\ notes' = notes @@ (nextNoteId :> note)
                       /\ nextNoteId' = nextNoteId + 1
                       /\ now' = now + 1
                       /\ view' = View("upload", u, 200, "", Some([id |-> nextNoteId] @@ note))
       /\ UNCHANGED <<transcripts, segments, nextTranscriptId, pc, req, loc, resp>>
       /\ UNCHANGED <<users, nextToken, call, http>>
       /\ UNCHANGED mdlVars

\* The uploads the routes are called with.
UploadNames == {<<"a", ".", "MP3">>, <<"a", ".", "exe">>}
UploadTypes == {None, Some(<<"audio/", "mpeg">>), Some(<<"text/", "plain">>)}
UploadSizes == {0, chunk_size + 1, max_bytes, max_bytes + 1}

\* The metadata validate_upload_metadata is applied to.
MetadataNames ==
    {<<"a", ".", x>> : x \in {"mp3", "m4a", "mp4", "wav", "webm", "ogg", "flac", "MP3", "exe", "txt"}}
      \cup {<<>>, <<"a">>, <<".", "mp3">>, <<"a", ".">>, <<"a", ".", "mp3", ".", "exe">>,
            <<"a", ".", "exe", ".", "mp3">>}
MetadataTypes ==
    {None, Some(<<>>), Some(<<"audio/", "mpeg">>), Some(<<"audio/", "x-flac">>),
     Some(<<"audio/", "basic">>), Some(<<"video/", "mp4">>), Some(<<"video/", "webm">>),
     Some(<<"text/", "plain">>), Some(<<"audio">>)}

\* validate_upload_metadata applied to one name and content type
validate(filename, content_type) ==
    /\ view' = View("validate", 0, 0, <<filename, content_type>>,
                    validate_upload_metadata(filename, content_type))
    /\ UNCHANGED <<files, nextFile>>
    /\ UNCHANGED authVars
    /\ UNCHANGED txVars
    /\ UNCHANGED mdlVars

InitValidate ==
    /\ AuthIdle
    /\ TxIdle

NextValidate == \E f \in MetadataNames, c \in MetadataTypes : validate(f, c)

SpecValidate == InitValidate /\ [][NextValidate]_vars

InitUpload ==
    /\ AuthIdle
    /\ TxIdle

NextUpload ==
    \E u \in UserIds, f \in UploadNames, c \in UploadTypes, n \in UploadSizes :
        upload_voice_note(u, f, c, n)

SpecUpload == InitUpload /\ [][NextUpload]_vars

(***************************************************************************)
(* Voice notes and transcription (app/routers/voice_notes.py,              *)
(* app/services/voice_note.py, app/services/transcription.py,              *)
(* app/services/transcript.py).                                            *)
(*                                                                         *)
(* Route handlers are plain functions, which the framework runs on worker  *)
(* threads, each request with a database session of its own (get_db).  A   *)
(* transcribe request is therefore a process of several steps, one per     *)
(* access to the committed tables; requests interleave between the steps.  *)
(***************************************************************************)
Reqs == {"r1", "r2"}
NoteIds == 1..MaxNotes

\* settings.WHISPER_MODEL_SIZE
WHISPER_MODEL_SIZE == "base"

\* What the speech-to-text model can yield: segments (start, end, text) in
\* produced order, and the info's language and duration.  Times are floats in
\* the code; the model counts them in tenths of a second.
SegA == [start |-> 0, end |-> 5, text |-> <<" ", "h", "i">>]
SegB == [start |-> 655, end |-> 700, text |-> <<"y", "o", " ">>]
ModelOutput(segments_list, duration) ==
    [segments |-> segments_list, language |-> "en", duration |-> duration]
ModelOutputs ==
    {ModelOutput(<<>>, 0), ModelOutput(<<SegA>>, 5),
     ModelOutput(<<SegA, SegB>>, 700), ModelOutput(<<SegB, SegA>>, 0)}

\* sep.join(parts)
RECURSIVE join(_, _)
join(sep, parts) ==
    IF parts = <<>> THEN <<>>
    ELSE IF Len(parts) = 1 THEN parts[1]
    ELSE parts[1] \o sep \o join(sep, Tail(parts))

\* Mutant of full_text_of: the segment texts are joined as produced, not trimmed.
full_text_of_untrimmed(segments_list) ==
    join(<<" ">>, [i \in 1..Len(segments_list) |-> segments_list[i].text])

\* " ".join(seg.text.strip() for seg in segments_list)
full_text_of(segments_list) ==
    join(<<" ">>, [i \in 1..Len(segments_list) |-> strip(segments_list[i].text)])

\* TranscriptSegment(...) for idx, seg in enumerate(segments_list)
segment_rows(transcript_id, segments_list) ==
    {[transcript_id |-> transcript_id,
      segment_index |-> idx - 1,
      start_time |-> segments_list[idx].start,
      end_time |-> segments_list[idx].end,
      text |-> strip(segments_list[idx].text)] : idx \in 1..Len(segments_list)}

\* VoiceNoteService.get_voice_note: the row with that id owned by user_id, or None
get_voice_note(ns, note_id, user_id) ==
    IF note_id \in DOMAIN ns /\ ns[note_id].user_id = user_id THEN Some(ns[note_id]) ELSE None

\* Mutant of Transcribable: only a note being transcribed is refused.
Transcribable_unless_running(status) == status # "transcribing"

\* The status guard of transcribe_voice_note: note.status in ("uploaded", "failed")
Transcribable(status) == status \in {"uploaded", "failed"}

\* Mutant of UniqueViolation: the column carries no unique index.
UniqueViolation_never(ts, voice_note_id) == FALSE

\* transcript.voice_note_id is unique: the INSERT of a second row for a note fails
UniqueViolation(ts, voice_note_id) == \E t \in ts : t.voice_note_id = voice_note_id

\* .order_by(TranscriptSegment.segment_index).all()
RECURSIVE OrderBySegmentIndex(_)
OrderBySegmentIndex(rows) ==
    IF rows = {} THEN <<>>
    ELSE LET m == CHOOSE x \in rows : \A y \in rows : x.segment_index <= y.segment_index
         IN <<m>> \o OrderBySegmentIndex(rows \ {m})

\* TranscriptService.get_transcript_with_segments: None, or the transcript with
\* its segments ordered by segment_index (the query joins the voice note)
get_transcript_with_segments(ts, segs, ns, transcript_id, user_id) ==
    LET found == {t \in ts : /\ t.id = transcript_id
                             /\ t.user_id = user_id
                             /\ t.voice_note_id \in DOMAIN ns}
    IN IF found = {} THEN None
       ELSE LET t == CHOOSE x \in found : TRUE
            IN Some([id |-> t.id, voice_note_id |-> t.voice_note_id,
                     original_filename |-> ns[t.voice_note_id].original_filename,
                     full_text |-> t.full_text,
                     language |-> t.language,
                     model_size |-> t.model_size,
                     created_at |-> t.created_at,
                     segments |-> OrderBySegmentIndex({g \in segs : g.transcript_id = transcript_id})])

Response(status, detail, transcript_id) ==
    [status |-> status, detail |-> detail, transcript_id |-> transcript_id]

NoRequest == [user |-> 0, note |-> 0, stored_filename |-> None]
\* The locals of a transcribe request: tx_service (the route's), model and the
\* model's output (transcribe's), and at, the place it has reached inside
\* get_transcription_service and _get_model.
NoLocals == [segments |-> <<>>, language |-> "", duration |-> 0,
             at |-> "route", tx_service |-> None, model |-> None]

\* The file a user uploads: the two users' files differ in their names.
AudioName(u) == IF u = 1 THEN <<"a", ".", "mp3">> ELSE <<"b", ".", "mp3">>

\* An accepted upload by user u, which ends in VoiceNoteService.create_voice_note
create_voice_note(u) == upload_voice_note(u, AudioName(u), Some(<<"audio/", "mpeg">>), 1)

\* POST /api/v1/voice-notes/{note_id}/transcribe, up to the call of
\* TranscriptionService.transcribe: the ownership lookup and the status guard
transcribe_voice_note(r, u, n) ==
    /\ pc[r] = "idle"
    /\ LET note == get_voice_note(notes, n, u)
       IN IF note = None
          THEN /\ resp' = [resp EXCEPT ![r] = Response(404, "Voice note not found", None)]
               /\ UNCHANGED <<pc, req>>
          ELSE IF ~Transcribable(note[1].status)
          THEN /\ resp' = [resp EXCEPT ![r] = Response(400, "Cannot transcribe note with status", None)]
               /\ UNCHANGED <<pc, req>>
          ELSE /\ pc' = [pc EXCEPT ![r] = "guarded"]
               /\ req' = [req EXCEPT ![r] = [user |-> note[1].user_id, note |-> n,
                                             stored_filename |-> Some(note[1].stored_filename)]]
               /\ resp' = [resp EXCEPT ![r] = Response(0, "", None)]
    /\ UNCHANGED <<notes, transcripts, segments, nextNoteId, nextTranscriptId, loc>>
    /\ UNCHANGED authVars
    /\ UNCHANGED libVars
    /\ UNCHANGED mdlVars

\* Mutant of mark_transcribing: the status is set on the session's object and
\* not committed before the model runs.
mark_transcribing_uncommitted(r) ==
    /\ pc[r] = "guarded"
    /\ loc[r].at = "service"
    /\ pc' = [pc EXCEPT ![r] = "marked"]
    /\ UNCHANGED <<notes, transcripts, segments, nextNoteId, nextTranscriptId, req, loc, resp>>
    /\ UNCHANGED authVars
    /\ UNCHANGED libVars
    /\ UNCHANGED mdlVars

\* A flush whose UPDATE of the voice_note row matches no row, because another
\* request deleted it, raises StaleDataError: nothing is written, and the
\* exception leaves transcribe as it is (outside the try block, or raised again
\* by the except branch's own commit).
stale_row_error(r) ==
    /\ notes' = notes
    /\ resp' = [resp EXCEPT ![r] = Response(500, "StaleDataError", None)]
    /\ pc' = [pc EXCEPT ![r] = "idle"]
    /\ req' = [req EXCEPT ![r] = NoRequest]
    /\ loc' = [loc EXCEPT ![r] = NoLocals]

\* TranscriptionService.transcribe: voice_note.status = "transcribing";
\* db.commit(); and the reload of the expired row that building file_path causes
mark_transcribing(r) ==
    /\ pc[r] = "guarded"
    /\ loc[r].at = "service"
    /\ LET n == req[r].note
       IN IF n \in DOMAIN notes
          THEN /\ notes' = [notes EXCEPT ![n].status = "transcribing"]
               /\ pc' = [pc EXCEPT ![r] = "marked"]
               /\ req' = [req EXCEPT ![r] = [user |-> notes[n].user_id, note |-> n,
                                             stored_filename |-> Some(notes[n].stored_filename)]]
               /\ UNCHANGED <<loc, resp>>
          ELSE stale_row_error(r)
    /\ UNCHANGED <<transcripts, segments, nextNoteId, nextTranscriptId>>
    /\ UNCHANGED authVars
    /\ UNCHANGED libVars
    /\ UNCHANGED mdlVars

\* The except branch when the session is usable: voice_note.status = "failed";
\* db.commit(); raise RuntimeError("Transcription failed: ...")
fail_and_raise(r) ==
    IF req[r].note \in DOMAIN notes
    THEN /\ notes' = [notes EXCEPT ![req[r].note].status = "failed"]
         /\ resp' = [resp EXCEPT ![r] = Response(500, "Transcription failed", None)]
         /\ pc' = [pc EXCEPT ![r] = "idle"]
         /\ req' = [req EXCEPT ![r] = NoRequest]
         /\ loc' = [loc EXCEPT ![r] = NoLocals]
    ELSE stale_row_error(r)

\* The except branch after db.flush() raised: the session's transaction was
\* rolled back by the failed flush and the branch calls no db.rollback(), so its
\* own db.commit() raises PendingRollbackError: nothing is written and that
\* exception, not the RuntimeError, leaves transcribe.
fail_after_flush_error(r) ==
    /\ notes' = notes
    /\ resp' = [resp EXCEPT ![r] = Response(500, "PendingRollbackError", None)]
    /\ pc' = [pc EXCEPT ![r] = "idle"]
    /\ req' = [req EXCEPT ![r] = NoRequest]
    /\ loc' = [loc EXCEPT ![r] = NoLocals]

\* Path(UPLOAD_DIR) / str(voice_note.user_id) / voice_note.stored_filename exists
FileExists(fs, dir, name) == \E f \in fs : f.dir = dir /\ f.name = name

\* get_transcription_service, line 92: if _transcription_service is None
get_transcription_service_test(r) ==
    /\ pc[r] = "guarded"
    /\ loc[r].at = "route"
    /\ loc' = [loc EXCEPT ![r].at = IF transcription_service = None
                                    THEN "service_new" ELSE "service_return"]
    /\ UNCHANGED <<notes, transcripts, segments, nextNoteId, nextTranscriptId, pc, req, resp>>
    /\ UNCHANGED authVars
    /\ UNCHANGED libVars
    /\ UNCHANGED mdlVars

\* get_transcription_service, line 93: _transcription_service = TranscriptionService(),
\* whose __init__ sets _model = None
get_transcription_service_new(r) ==
    /\ pc[r] = "guarded"
    /\ loc[r].at = "service_new"
    /\ services' = Append(services, None)
    /\ transcription_service' = Some(Len(services) + 1)
    /\ loc' = [loc EXCEPT ![r].at = "service_return"]
    /\ UNCHANGED <<notes, transcripts, segments, nextNoteId, nextTranscriptId, pc, req, resp>>
    /\ UNCHANGED modelsLoaded
    /\ UNCHANGED authVars
    /\ UNCHANGED libVars

\* get_transcription_service, line 94: return _transcription_service, which the
\* route binds to tx_service
get_transcription_service_return(r) ==
    /\ pc[r] = "guarded"
    /\ loc[r].at = "service_return"
    /\ loc' = [loc EXCEPT ![r].at = "service", ![r].tx_service = transcription_service]
    /\ UNCHANGED <<notes, transcripts, segments, nextNoteId, nextTranscriptId, pc, req, resp>>
    /\ UNCHANGED authVars
    /\ UNCHANGED libVars
    /\ UNCHANGED mdlVars

\* _get_model, line 21: if self._model is None
get_model_test(r) ==
    /\ pc[r] = "marked"
    /\ loc[r].at = "service"
    /\ loc' = [loc EXCEPT ![r].at = IF services[loc[r].tx_service[1]] = None
                                    THEN "model_new" ELSE "model_return"]
    /\ UNCHANGED <<notes, transcripts, segments, nextNoteId, nextTranscriptId, pc, req, resp>>
    /\ UNCHANGED authVars
    /\ UNCHANGED libVars
    /\ UNCHANGED mdlVars

\* The except branch, and the end of the request's locals
fail_in_get_model(r) ==
    /\ fail_and_raise(r)
    /\ UNCHANGED mdlVars

\* _get_model, lines 22-25: self._model = WhisperModel(...), or the import or
\* the constructor raises and the except branch of transcribe runs
get_model_new(r) ==
    /\ pc[r] = "marked"
    /\ loc[r].at = "model_new"
    /\ \/ /\ modelsLoaded' = modelsLoaded + 1
          /\ services' = [services EXCEPT ![loc[r].tx_service[1]] = Some(modelsLoaded + 1)]
          /\ loc' = [loc EXCEPT ![r].at = "model_return"]
          /\ UNCHANGED <<notes, pc, req, resp, transcription_service>>
       \/ fail_in_get_model(r)
    /\ UNCHANGED <<transcripts, segments, nextNoteId, nextTranscriptId>>
    /\ UNCHANGED authVars
    /\ UNCHANGED libVars

\* _get_model, line 26: return self._model, which transcribe binds to model
get_model_return(r) ==
    /\ pc[r] = "marked"
    /\ loc[r].at = "model_return"
    /\ loc' = [loc EXCEPT ![r].at = "model", ![r].model = services[loc[r].tx_service[1]]]
    /\ UNCHANGED <<notes, transcripts, segments, nextNoteId, nextTranscriptId, pc, req, resp>>
    /\ UNCHANGED authVars
    /\ UNCHANGED libVars
    /\ UNCHANGED mdlVars

\* model.transcribe(...); list(segments_iter): the model reads the file and
\* yields an output, or running it raises (it does when the file is gone)
run_model(r) ==
    /\ pc[r] = "marked"
    /\ loc[r].at = "model"
    /\ \/ \E out \in ModelOutputs :
            /\ FileExists(files, req[r].user, req[r].stored_filename[1])
            /\ loc' = [loc EXCEPT ![r] = out @@ loc[r]]
            /\ pc' = [pc EXCEPT ![r] = "decoded"]
            /\ UNCHANGED <<notes, req, resp>>
       \/ fail_and_raise(r)
    /\ UNCHANGED <<transcripts, segments, nextNoteId, nextTranscriptId>>
    /\ UNCHANGED authVars
    /\ UNCHANGED libVars
    /\ UNCHANGED mdlVars

\* The rest of the try block: the Transcript row (db.add, db.flush), the segment
\* rows, status "completed", the duration, db.commit(), and the route's answer.
\* db_ok is whether the database accepts the INSERT (it may be locked or full).
\* The row's owner is the one the session has loaded; the UPDATE of the note
\* goes by its id.
persist(r, db_ok) ==
    /\ pc[r] = "decoded"
    /\ LET n == req[r].note
           tid == nextTranscriptId
           transcript == [id |-> tid,
                          voice_note_id |-> n,
                          user_id |-> req[r].user,
                          full_text |-> full_text_of(loc[r].segments),
                          language |-> loc[r].language,
                          model_size |-> WHISPER_MODEL_SIZE,
                          created_at |-> now + 1]
       IN IF db_ok /\ ~UniqueViolation(transcripts, n)
          THEN IF n \in DOMAIN notes
               THEN /\ transcripts' = transcripts \cup {transcript}
                    /\ segments' = segments \cup segment_rows(tid, loc[r].segments)
                    /\ nextTranscriptId' = tid + 1
                    /\ notes' = [notes EXCEPT ![n].status = "completed",
                                              ![n].duration_seconds =
                                                 IF loc[r].duration # 0 THEN Some(loc[r].duration) ELSE @]
                    /\ resp' = [resp EXCEPT ![r] = Response(200, "Transcription complete", Some(tid))]
                    /\ pc' = [pc EXCEPT ![r] = "idle"]
                    /\ req' = [req EXCEPT ![r] = NoRequest]
                    /\ loc' = [loc EXCEPT ![r] = NoLocals]
                    /\ now' = now + 1
               ELSE /\ stale_row_error(r)
                    /\ UNCHANGED <<transcripts, segments, nextTranscriptId, now>>
          ELSE /\ fail_after_flush_error(r)
               /\ UNCHANGED <<transcripts, segments, nextTranscriptId, now>>
    /\ nextNoteId' = nextNoteId
    /\ UNCHANGED <<users, nextToken, call, http>>
    /\ UNCHANGED libVars
    /\ UNCHANGED mdlVars

InitTranscribe ==
    /\ AuthIdle
    /\ LibIdle
    /\ notes = <<>>
    /\ transcripts = {}
    /\ segments = {}
    /\ nextNoteId = 1
    /\ nextTranscriptId = 1
    /\ pc = [r \in Reqs |-> "idle"]
    /\ req = [r \in Reqs |-> NoRequest]
    /\ loc = [r \in Reqs |-> NoLocals]
    /\ resp = [r \in Reqs |-> Response(0, "", None)]

NextTranscribe ==
    \/ \E u \in UserIds : create_voice_note(u)
    \/ \E r \in Reqs, u \in UserIds, n \in NoteIds : transcribe_voice_note(r, u, n)
    \/ \E r \in Reqs : get_transcription_service_test(r)
    \/ \E r \in Reqs : get_transcription_service_new(r)
    \/ \E r \in Reqs : get_transcription_service_return(r)
    \/ \E r \in Reqs : mark_transcribing(r)
    \/ \E r \in Reqs : get_model_test(r)
    \/ \E r \in Reqs : get_model_new(r)
    \/ \E r \in Reqs : get_model_return(r)
    \/ \E r \in Reqs : run_model(r)
    \/ \E r \in Reqs, db_ok \in BOOLEAN : persist(r, db_ok)

SpecTranscribe == InitTranscribe /\ [][NextTranscribe]_vars

(***************************************************************************)
(* Reading and deleting (app/routers/voice_notes.py,                       *)
(* app/routers/transcripts.py, app/services/transcript.py).  Each action   *)
(* is one request, served in one step; view holds its response.            *)
(***************************************************************************)
\* .order_by(created_at.desc()).all(); no two rows share a created_at, the clock
\* moves between the requests that insert them
RECURSIVE OrderByCreatedAtDesc(_)
OrderByCreatedAtDesc(rows) ==
    IF rows = {} THEN <<>>
    ELSE LET m == CHOOSE x \in rows : \A y \in rows : x.created_at >= y.created_at
         IN <<m>> \o OrderByCreatedAtDesc(rows \ {m})

\* query.offset(offset).limit(limit) on SQLite: a negative OFFSET counts as 0
\* and a negative LIMIT as no limit
Window(rows, limit, offset) ==
    LET skipped == SubSeq(rows, (IF offset < 0 THEN 0 ELSE offset) + 1, Len(rows))
    IN IF limit < 0 THEN skipped ELSE SubSeq(skipped, 1, Min(limit, Len(skipped)))

\* VoiceNoteService.get_user_voice_notes: the user's rows with their ids, newest first
get_user_voice_notes(ns, user_id) ==
    OrderByCreatedAtDesc({[id |-> i] @@ ns[i] : i \in {j \in DOMAIN ns : ns[j].user_id = user_id}})

\* The dict get_user_transcripts builds of a transcript and its note's file name
TranscriptItem(t, ns) ==
    [id |-> t.id, voice_note_id |-> t.voice_note_id,
     original_filename |-> ns[t.voice_note_id].original_filename,
     full_text |-> t.full_text, language |-> t.language, model_size |-> t.model_size,
     created_at |-> t.created_at]

\* TranscriptService.get_user_transcripts: (items, total).  search is None or
\* Some(string); the filter is full_text ILIKE '%' || search || '%'.
get_user_transcripts(ts, ns, user_id, search, limit, offset) ==
    LET joined == {t \in ts : t.voice_note_id \in DOMAIN ns /\ t.user_id = user_id}
        matching == IF search # None /\ search[1] # <<>>
                    THEN {t \in joined : ilike(t.full_text, <<"%">> \o search[1] \o <<"%">>)}
                    ELSE joined
        results == Window(OrderByCreatedAtDesc(matching), limit, offset)
    IN [items |-> [i \in 1..Len(results) |-> TranscriptItem(results[i], ns)],
        total |-> Cardinality(matching)]

Digit(d) == CASE d = 0 -> "0" [] d = 1 -> "1" [] d = 2 -> "2" [] d = 3 -> "3" [] d = 4 -> "4"
              [] d = 5 -> "5" [] d = 6 -> "6" [] d = 7 -> "7" [] d = 8 -> "8" [] d = 9 -> "9"

\* str(n) for n >= 0
RECURSIVE Decimal(_)
Decimal(n) == IF n < 10 THEN <<Digit(n)>> ELSE Decimal(n \div 10) \o <<Digit(n % 10)>>

\* f"{n:02d}" for n >= 0
Format02d(n) == IF n < 10 THEN <<"0">> \o Decimal(n) ELSE Decimal(n)

\* Mutant of SegmentLine: the numbers are not padded.
SegmentLine_unpadded(seg) ==
    <<"[">> \o Decimal(seg.start_time \div 600) \o <<":">>
            \o Decimal((seg.start_time % 600) \div 10) \o <<"]", " ">> \o seg.text

\* start_min = int(seg.start_time // 60); start_sec = int(seg.start_time % 60);
\* f"[{start_min:02d}:{start_sec:02d}] {seg.text}", start_time in tenths of a second
SegmentLine(seg) ==
    <<"[">> \o Format02d(seg.start_time \div 600) \o <<":">>
            \o Format02d((seg.start_time % 600) \div 10) \o <<"]", " ">> \o seg.text

Rule == [i \in 1..60 |-> "="]

\* TranscriptService.generate_download_text: the lines, joined by newlines;
\* str(created_at) is the timestamp in digits
generate_download_text(transcript_data) ==
    LET segs == transcript_data.segments
        lines == << <<"Transcript: ">> \o transcript_data.original_filename,
                    <<"Language: ", transcript_data.language>>,
                    <<"Model: ", transcript_data.model_size>>,
                    <<"Date: ">> \o Decimal(transcript_data.created_at),
                    <<>>,
                    Rule,
                    <<>> >>
                 \o [i \in 1..Len(segs) |-> SegmentLine(segs[i])]
                 \o << <<>>, Rule, <<>>, <<"Full Text:">>, transcript_data.full_text >>
    IN join(<<"\n">>, lines)

\* A read changes nothing but the response.
ReadOnly ==
    /\ UNCHANGED <<files, nextFile>>
    /\ UNCHANGED authVars
    /\ UNCHANGED txVars
    /\ UNCHANGED mdlVars

\* GET /api/v1/voice-notes/
list_voice_notes(u) ==
    /\ view' = View("list_voice_notes", u, 200, "", get_user_voice_notes(notes, u))
    /\ ReadOnly

\* GET /api/v1/voice-notes/{note_id}
route_get_voice_note(u, n) ==
    /\ LET note == get_voice_note(notes, n, u)
       IN view' = IF note = None
                  THEN View("get_voice_note", u, 404, "Voice note not found", None)
                  ELSE View("get_voice_note", u, 200, "", Some([id |-> n] @@ note[1]))
    /\ ReadOnly

\* The id the next INSERT into voice_note gets: the table's id column is an
\* INTEGER PRIMARY KEY without AUTOINCREMENT, so SQLite hands out the largest id
\* in the table plus one, and the id of a deleted last row is given out again.
NextRowId(ids) == IF ids = {} THEN 1 ELSE (CHOOSE i \in ids : \A j \in ids : j <= i) + 1

\* DELETE /api/v1/voice-notes/{note_id}: the ownership lookup, and
\* VoiceNoteService.delete_voice_note: the file is removed, then the row is
\* deleted.  SQLite does not enforce the foreign keys of transcript rows (no
\* PRAGMA foreign_keys), and the models declare no cascade.
delete_voice_note(u, n) ==
    /\ LET note == get_voice_note(notes, n, u)
       IN IF note = None
          THEN /\ view' = View("delete_voice_note", u, 404, "Voice note not found", None)
               /\ UNCHANGED <<notes, nextNoteId, files>>
          ELSE /\ files' = remove(files, note[1].user_id, note[1].stored_filename)
               /\ notes' = [i \in DOMAIN notes \ {n} |-> notes[i]]
               /\ nextNoteId' = NextRowId(DOMAIN notes \ {n})
               /\ view' = View("delete_voice_note", u, 200, "Voice note deleted", None)
    /\ UNCHANGED <<transcripts, segments, nextTranscriptId, pc, req, loc, resp, nextFile>>
    /\ UNCHANGED authVars
    /\ UNCHANGED mdlVars

\* Mutant of delete_voice_note_commit_fails: the row is deleted before the file
\* is touched, so the failing commit leaves the file on disk.
delete_voice_note_row_first(u, n) ==
    /\ get_voice_note(notes, n, u) # None
    /\ view' = View("delete_voice_note", u, 500, "OperationalError", None)
    /\ ReadOnly

\* DELETE /api/v1/voice-notes/{note_id} when db.commit() raises (the database is
\* locked): os.remove has run by then, the DELETE is rolled back, and the
\* exception leaves the route.
delete_voice_note_commit_fails(u, n) ==
    /\ LET note == get_voice_note(notes, n, u)
       IN /\ note # None
          /\ files' = remove(files, note[1].user_id, note[1].stored_filename)
    /\ view' = View("delete_voice_note", u, 500, "OperationalError", None)
    /\ UNCHANGED nextFile
    /\ UNCHANGED authVars
    /\ UNCHANGED txVars
    /\ UNCHANGED mdlVars

\* GET /api/v1/transcripts/
list_transcripts(u, search, limit, offset) ==
    /\ view' = View("list_transcripts", u, 200, "",
                    get_user_transcripts(transcripts, notes, u, search, limit, offset))
    /\ ReadOnly

\* GET /api/v1/transcripts/{transcript_id}
get_transcript(u, t) ==
    /\ LET data == get_transcript_with_segments(transcripts, segments, notes, t, u)
       IN view' = IF data = None
                  THEN View("get_transcript", u, 404, "Transcript not found", None)
                  ELSE View("get_transcript", u, 200, "", data)
    /\ ReadOnly

\* original_filename.rsplit(".", 1)[0] + ".txt"
DownloadName(original_filename) ==
    LET dots == {i \in 1..Len(original_filename) : original_filename[i] = "."}
    IN (IF dots = {} THEN original_filename
        ELSE SubSeq(original_filename, 1, (CHOOSE d \in dots : \A e \in dots : e <= d) - 1))
       \o <<".", "txt">>

\* GET /api/v1/transcripts/{transcript_id}/download
download_transcript(u, t) ==
    /\ LET data == get_transcript_with_segments(transcripts, segments, notes, t, u)
       IN view' = IF data = None
                  THEN View("download_transcript", u, 404, "Transcript not found", None)
                  ELSE View("download_transcript", u, 200, DownloadName(data[1].original_filename),
                            Some(generate_download_text(data[1])))
    /\ ReadOnly

TranscriptIds == 1..MaxNotes
DEFAULT_LIMIT == 50

InitNotes == InitTranscribe

\* One transcribe request is in flight at a time here; the other routes are
\* served between its steps.
NotesReqs == {"r1"}

NextNotes ==
    \/ \E u \in UserIds : create_voice_note(u)
    \/ \E r \in NotesReqs, u \in UserIds, n \in NoteIds : transcribe_voice_note(r, u, n)
    \/ \E r \in NotesReqs : get_transcription_service_test(r)
    \/ \E r \in NotesReqs : get_transcription_service_new(r)
    \/ \E r \in NotesReqs : get_transcription_service_return(r)
    \/ \E r \in NotesReqs : mark_transcribing(r)
    \/ \E r \in NotesReqs : get_model_test(r)
    \/ \E r \in NotesReqs : get_model_new(r)
    \/ \E r \in NotesReqs : get_model_return(r)
    \/ \E r \in NotesReqs : run_model(r)
    \/ \E r \in NotesReqs, db_ok \in BOOLEAN : persist(r, db_ok)
    \/ \E u \in UserIds, n \in NoteIds : delete_voice_note(u, n)
    \/ \E u \in UserIds, n \in NoteIds : delete_voice_note_commit_fails(u, n)
    \/ \E u \in UserIds : list_voice_notes(u)
    \/ \E u \in UserIds, n \in NoteIds : route_get_voice_note(u, n)
    \/ \E u \in UserIds : list_transcripts(u, None, DEFAULT_LIMIT, 0)
    \/ \E u \in UserIds, t \in TranscriptIds : get_transcript(u, t)
    \/ \E u \in UserIds, t \in TranscriptIds : download_transcript(u, t)

SpecNotes == InitNotes /\ [][NextNotes]_vars

\* The query parameters of GET /api/v1/transcripts/ tried here: search is
\* absent, empty or a string; limit and offset are any integers.
SearchInputs == {None, Some(<<>>), Some(<<"H">>), Some(<<"h", "_">>), Some(<<"z">>)}
Limits == {-1, 0, 1}
Offsets == {-1, 0, 1}

NextSearch ==
    \/ \E u \in UserIds : create_voice_note(u)
    \/ \E r \in NotesReqs, u \in UserIds, n \in NoteIds : transcribe_voice_note(r, u, n)
    \/ \E r \in NotesReqs : get_transcription_service_test(r)
    \/ \E r \in NotesReqs : get_transcription_service_new(r)
    \/ \E r \in NotesReqs : get_transcription_service_return(r)
    \/ \E r \in NotesReqs : mark_transcribing(r)
    \/ \E r \in NotesReqs : get_model_test(r)
    \/ \E r \in NotesReqs : get_model_new(r)
    \/ \E r \in NotesReqs : get_model_return(r)
    \/ \E r \in NotesReqs : run_model(r)
    \/ \E r \in NotesReqs, db_ok \in BOOLEAN : persist(r, db_ok)
    \/ \E u \in UserIds, n \in NoteIds : delete_voice_note(u, n)
    \/ \E u \in UserIds, search \in SearchInputs, limit \in Limits \cup {DEFAULT_LIMIT},
          offset \in Offsets :
          list_transcripts(u, search, limit, offset)

SpecSearch == InitNotes /\ [][NextSearch]_vars

(***************************************************************************)
(* Bearer tokens (app/services/jwt.py, app/dependencies.py, main.py).      *)
(*                                                                         *)
(* A token is its three parts: the header, the payload and the signature;  *)
(* parts is how many dot-separated parts the string has.  The signature is *)
(* the key and the signed parts: it verifies under a key exactly when it   *)
(* was made with that key over the same header and payload.                *)
(***************************************************************************)
\* settings.JWT_SECRET_KEY, and a key that is not the service's
JWT_SECRET_KEY == "secret"
OtherKey == "other"

\* settings.JWT_ALGORITHM
JWT_ALGORITHM == "HS256"

\* settings.JWT_EXPIRE_MINUTES
JWT_EXPIRE_MINUTES == MaxSessionMinutes

HMAC(key, header, payload) == [key |-> key, header |-> header, payload |-> payload]

\* jwt.encode(payload, key, algorithm=algorithm)
encode(payload, key, algorithm) ==
    LET header == [alg |-> algorithm, typ |-> "JWT"]
    IN [parts |-> 3, header |-> header, payload |-> payload,
        signature |-> HMAC(key, header, payload)]

\* JWTService.create_token at time t: str(user_id) is the id in digits
create_token(user_id, email, display_name, t) ==
    encode([sub |-> Decimal(user_id), email |-> email, displayName |-> display_name,
            exp |-> t + JWT_EXPIRE_MINUTES],
           JWT_SECRET_KEY, JWT_ALGORITHM)

\* Mutant of decode_token: the signature is not verified.
decode_token_unverified(token, t) ==
    IF token.parts # 3 THEN None
    ELSE IF token.header.alg # JWT_ALGORITHM THEN None
    ELSE IF token.payload.exp < t THEN None
    ELSE Some(token.payload)

\* JWTService.decode_token at time t: jwt.decode raises JWTError for a string
\* that is no token, an algorithm other than the service's, a signature that
\* does not verify and an exp in the past; decode_token then returns None.
decode_token(token, t) ==
    IF token.parts # 3 THEN None
    ELSE IF token.header.alg # JWT_ALGORITHM THEN None
    ELSE IF token.signature # HMAC(JWT_SECRET_KEY, token.header, token.payload) THEN None
    ELSE IF token.payload.exp < t THEN None
    ELSE Some(token.payload)

DigitValue(c) == CHOOSE d \in 0..9 : Digit(d) = c

\* int(s) of a string of digits
RECURSIVE int(_)
int(s) == IF s = <<>> THEN 0
          ELSE 10 * int(SubSeq(s, 1, Len(s) - 1)) + DigitValue(s[Len(s)])

HTTPException(status_code, detail) == [status_code |-> status_code, detail |-> detail]

\* get_current_user: the token of an "Authorization: Bearer" header, else the
\* one of the sw_auth_token cookie; raises 401 or returns the CurrentUser
get_current_user(authorization, cookie, t) ==
    LET bearer == IF authorization # None /\ authorization[1].scheme = "Bearer "
                  THEN Some(authorization[1].token) ELSE None
        token == IF bearer # None THEN bearer ELSE cookie
        payload == decode_token(token[1], t)
    IN IF token = None
       THEN [raised |-> Some(HTTPException(401, "Not authenticated")), user |-> None]
       ELSE IF payload = None
       THEN [raised |-> Some(HTTPException(401, "Invalid or expired token")), user |-> None]
       ELSE [raised |-> None,
             user |-> Some([user_id |-> int(payload[1].sub), email |-> payload[1].email,
                            display_name |-> payload[1].displayName])]

\* Mutant of http_exception_handler: every 401 is answered as JSON.
http_exception_handler_json(exc, hx_request, api_path) ==
    [status |-> exc.status_code, detail |-> exc.detail]

\* main.http_exception_handler: a 401 of a request with the HX-Request header
\* becomes a 200 carrying HX-Redirect: /login; else under /api/ it is a JSON
\* 401; else a 302 to /login.  Other errors keep their status.  api_path is
\* request.url.path.startswith("/api/").
http_exception_handler(exc, hx_request, api_path) ==
    IF exc.status_code = 401 /\ hx_request
    THEN [status |-> 200, detail |-> "HX-Redirect: /login"]
    ELSE IF exc.status_code = 401 /\ ~api_path
    THEN [status |-> 302, detail |-> "Location: /login"]
    ELSE [status |-> exc.status_code, detail |-> exc.detail]

\* The account of user u, as the auth routes hand it to create_token
Account(u) == [user_id |-> u, email |-> IF u = 1 THEN <<"a">> ELSE <<"b">>, display_name |-> <<"n">>]

\* The times at which the tokens the clients hold are issued
IssueTimes == {0, JWT_EXPIRE_MINUTES}

\* The tokens create_token issues at those times
Issued ==
    {create_token(u, Account(u).email, Account(u).display_name, t0) :
        u \in UserIds, t0 \in IssueTimes}

\* Tokens the service did not issue: signed with another key, of another
\* algorithm, with a payload changed after signing, and a string that is no token
Forged ==
    LET good == create_token(1, Account(1).email, Account(1).display_name, 0)
        claims == [good.payload EXCEPT !.sub = Decimal(2), !.exp = MaxTime + 1]
    IN {encode(claims, OtherKey, JWT_ALGORITHM),
        encode(claims, JWT_SECRET_KEY, "none"),
        [good EXCEPT !.payload = claims],
        [good EXCEPT !.parts = 1]}

Bearer(token) == Some([scheme |-> "Bearer ", token |-> token])
Basic(token) == Some([scheme |-> "Basic ", token |-> token])

\* What a request carries: the Authorization header and the cookie
Credentials ==
    {[authorization |-> None, cookie |-> None]}
      \cup {[authorization |-> Bearer(k), cookie |-> None] : k \in Issued \cup Forged}
      \cup {[authorization |-> Basic(k), cookie |-> Some(k)] : k \in {i \in Issued : i.payload.sub = Decimal(1)}}
      \cup {[authorization |-> Bearer([k EXCEPT !.parts = 1]), cookie |-> Some(k)] :
               k \in {i \in Issued : i.payload.sub = Decimal(2) /\ i.payload.exp = JWT_EXPIRE_MINUTES}}

\* The tokens a request carries
TokensOf(c) ==
    (IF c.authorization = None THEN {} ELSE {c.authorization[1].token})
      \cup (IF c.cookie = None THEN {} ELSE {c.cookie[1]})

\* A client can send c at time t: the issued tokens in it were issued by then
Available(c, t) ==
    \A k \in TokensOf(c) \cap Issued : k.payload.exp - JWT_EXPIRE_MINUTES <= t

\* The dependency raised: the handler's answer is the response, and the
\* endpoint is not called
Refused(op, exc, hx_request) ==
    /\ LET answer == http_exception_handler(exc, hx_request, TRUE)
       IN view' = View(op, 0, answer.status, answer.detail, None)
    /\ ReadOnly

\* TranscriptService.get_transcript_by_voice_note: the first transcript of the
\* voice note that belongs to the user
get_transcript_by_voice_note(ts, voice_note_id, user_id) ==
    LET found == {t \in ts : t.voice_note_id = voice_note_id /\ t.user_id = user_id}
    IN IF found = {} THEN None ELSE Some(CHOOSE t \in found : TRUE)

\* get_current_user_from_cookie: the CurrentUser of the cookie's token, or None
get_current_user_from_cookie(cookie, t) ==
    IF cookie = None \/ decode_token(cookie[1], t) = None THEN None
    ELSE LET payload == decode_token(cookie[1], t)[1]
         IN Some([user_id |-> int(payload.sub), email |-> payload.email,
                  display_name |-> payload.displayName])

\* require_web_auth: raises 401 when the cookie gives no user
require_web_auth(cookie, t) ==
    LET user == get_current_user_from_cookie(cookie, t)
    IN IF user = None
       THEN [raised |-> Some(HTTPException(401, "Not authenticated")), user |-> None]
       ELSE [raised |-> None, user |-> user]

\* The dependency of a web route raised
RefusedWeb(op, exc, hx_request) ==
    /\ LET answer == http_exception_handler(exc, hx_request, FALSE)
       IN view' = View(op, 0, answer.status, answer.detail, None)
    /\ ReadOnly

\* GET /upload: the page with the user's voice notes
upload_page(c, hx) ==
    /\ Available(c, now)
    /\ IF require_web_auth(c.cookie, now).raised # None
       THEN RefusedWeb("upload_page", require_web_auth(c.cookie, now).raised[1], hx)
       ELSE /\ view' = View("upload_page", require_web_auth(c.cookie, now).user[1].user_id, 200, "",
                            get_user_voice_notes(notes, require_web_auth(c.cookie, now).user[1].user_id))
            /\ ReadOnly

\* GET /partials/transcription-status/{note_id}: the note, if it is the user's
transcription_status_partial(c, hx, n) ==
    /\ Available(c, now)
    /\ IF require_web_auth(c.cookie, now).raised # None
       THEN RefusedWeb("transcription_status_partial", require_web_auth(c.cookie, now).raised[1], hx)
       ELSE /\ LET user_id == require_web_auth(c.cookie, now).user[1].user_id
                   note == get_voice_note(notes, n, user_id)
                   transcript == IF note = None THEN None
                                 ELSE get_transcript_by_voice_note(transcripts, n, user_id)
               IN view' = View("transcription_status_partial", user_id, 200, "",
                               Some([note |-> note, transcript |-> transcript]))
            /\ ReadOnly

\* The CurrentUser or the HTTPException the dependency of a request gives
current_user(c) == get_current_user(c.authorization, c.cookie, now)

\* The endpoints below declare user: CurrentUser = Depends(get_current_user):
\* the dependency runs first, and the endpoint only if it raised nothing.
api_upload_voice_note(c, hx) ==
    /\ Available(c, now)
    /\ IF current_user(c).raised # None
       THEN Refused("upload", current_user(c).raised[1], hx)
       ELSE create_voice_note(current_user(c).user[1].user_id)

api_list_voice_notes(c, hx) ==
    /\ Available(c, now)
    /\ IF current_user(c).raised # None
       THEN Refused("list_voice_notes", current_user(c).raised[1], hx)
       ELSE list_voice_notes(current_user(c).user[1].user_id)

api_get_voice_note(c, hx, n) ==
    /\ Available(c, now)
    /\ IF current_user(c).raised # None
       THEN Refused("get_voice_note", current_user(c).raised[1], hx)
       ELSE route_get_voice_note(current_user(c).user[1].user_id, n)

api_delete_voice_note(c, hx, n) ==
    /\ Available(c, now)
    /\ IF current_user(c).raised # None
       THEN Refused("delete_voice_note", current_user(c).raised[1], hx)
       ELSE delete_voice_note(current_user(c).user[1].user_id, n)

InitToken == InitNotes

\* The voice-note endpoints and two web routes; the transcribe and transcript
\* endpoints and the other pages declare the same dependencies.
NextToken ==
    \/ \E d \in TickSteps : Tick(d)
    \/ \E c \in Credentials, hx \in BOOLEAN : api_upload_voice_note(c, hx)
    \/ \E c \in Credentials, hx \in BOOLEAN : api_list_voice_notes(c, hx)
    \/ \E c \in Credentials, hx \in BOOLEAN, n \in NoteIds : api_get_voice_note(c, hx, n)
    \/ \E c \in Credentials, hx \in BOOLEAN, n \in NoteIds : api_delete_voice_note(c, hx, n)
    \/ \E c \in Credentials, hx \in BOOLEAN : upload_page(c, hx)
    \/ \E c \in Credentials, hx \in BOOLEAN, n \in NoteIds : transcription_status_partial(c, hx, n)

SpecToken == InitToken /\ [][NextToken]_vars

(***************************************************************************)
(* Transcription claims.                                                   *)
(***************************************************************************)
TranscriptsOf(ts, n) == {t \in ts : t.voice_note_id = n}
SegmentsOf(segs, tid) == {g \in segs : g.transcript_id = tid}

\* The text without its leading and trailing blanks, and texts joined by single
\* blanks, stated apart from strip and join.
Trimmed(text) ==
    LET idx == {i \in 1..Len(text) : text[i] # " "}
    IN IF idx = {} THEN <<>>
       ELSE SubSeq(text, CHOOSE i \in idx : \A j \in idx : i <= j,
                         CHOOSE i \in idx : \A j \in idx : i >= j)

RECURSIVE SpaceJoined(_)
SpaceJoined(texts) ==
    IF texts = <<>> THEN <<>>
    ELSE IF Len(texts) = 1 THEN texts[1]
    ELSE SpaceJoined(SubSeq(texts, 1, Len(texts) - 1)) \o <<" ">> \o texts[Len(texts)]

\* C1: a transcribe request on a note the caller owns passes the guard exactly
\* when the note's status is uploaded or failed; with status transcribing or
\* completed it is answered 400, the handler ends there (the model is not run),
\* and the note, the transcripts and the segments are unchanged.
C1_StatusGuard ==
    [][\A r \in Reqs, u \in UserIds, n \in NoteIds :
         (transcribe_voice_note(r, u, n) /\ n \in DOMAIN notes /\ notes[n].user_id = u) =>
           /\ (pc'[r] = "guarded") <=> (notes[n].status \in {"uploaded", "failed"})
           /\ notes[n].status \in {"transcribing", "completed"} =>
                /\ resp'[r].status = 400
                /\ resp'[r].transcript_id = None
                /\ pc'[r] = "idle"
                /\ notes' = notes
                /\ transcripts' = transcripts
                /\ segments' = segments
      ]_vars

\* C1 witness: a request on completed note 1, which has its one transcript, was
\* answered 400.
C1_Witness ==
    /\ 1 \in DOMAIN notes
    /\ notes[1].status = "completed"
    /\ Cardinality(TranscriptsOf(transcripts, 1)) = 1
    /\ \E r \in Reqs : pc[r] = "idle" /\ resp[r].status = 400

C3_FailureMarksFailed ==
    [][\A r \in Reqs :
         (pc[r] \in {"marked", "decoded"} /\ pc'[r] = "idle" /\ resp'[r].status # 200) =>
           /\ notes'[req[r].note].status = "failed"
           /\ resp'[r] = Response(500, "Transcription failed", None)
           /\ transcripts' = transcripts
           /\ segments' = segments
      ]_vars

\* C4: every voice note has at most one transcript.
C4_OneTranscriptPerNote ==
    \A n \in NoteIds : Cardinality(TranscriptsOf(transcripts, n)) <= 1

\* C4 witness: note 1 has its transcript and is transcribing again, which takes
\* two requests that both passed the guard, and the second one's INSERT failed.
C4_Witness ==
    /\ 1 \in DOMAIN notes
    /\ notes[1].status = "transcribing"
    /\ Cardinality(TranscriptsOf(transcripts, 1)) = 1
    /\ \E r \in Reqs : pc[r] = "idle" /\ resp[r].detail = "PendingRollbackError"
    /\ \E r \in Reqs : pc[r] = "idle" /\ resp[r].status = 200

\* C5: a transcribe call that returns 200 for model segments s_0..s_(n-1) has
\* committed, in that one step, the transcript whose full_text is the trimmed
\* texts joined by single blanks in produced order and exactly n segment rows,
\* the row with segment_index i holding the trimmed text, start and end of s_i;
\* and the detail read returns these rows in ascending segment_index.
C5_TranscriptFromSegments ==
    [][\A r \in Reqs, db_ok \in BOOLEAN :
         (persist(r, db_ok) /\ resp'[r].status = 200) =>
           LET segs == loc[r].segments
               tid == resp'[r].transcript_id[1]
               detail == get_transcript_with_segments(transcripts', segments', notes', tid, req[r].user)
           IN /\ Cardinality(transcripts' \ transcripts) = 1
              /\ \A t \in transcripts' \ transcripts :
                    /\ t.id = tid
                    /\ t.voice_note_id = req[r].note
                    /\ t.full_text = SpaceJoined([i \in 1..Len(segs) |-> Trimmed(segs[i].text)])
              /\ segments' \ segments = SegmentsOf(segments', tid)
              /\ Cardinality(SegmentsOf(segments', tid)) = Len(segs)
              /\ \A i \in 1..Len(segs) :
                    [transcript_id |-> tid, segment_index |-> i - 1,
                     start_time |-> segs[i].start, end_time |-> segs[i].end,
                     text |-> Trimmed(segs[i].text)] \in segments'
              /\ notes'[req[r].note].status = "completed"
              /\ detail # None
              /\ detail[1].full_text = SpaceJoined([i \in 1..Len(segs) |-> Trimmed(segs[i].text)])
              /\ Len(detail[1].segments) = Len(segs)
              /\ \A i \in 1..Len(segs) :
                    /\ detail[1].segments[i].segment_index = i - 1
                    /\ detail[1].segments[i].text = Trimmed(segs[i].text)
                    /\ detail[1].segments[i].start_time = segs[i].start
      ]_vars

\* C5 witness: the model yielded " yo " at 5 s and then " hi" at 0 s; the
\* transcript reads "yo hi" and the detail read returns the two rows in
\* produced order.
C5_Witness ==
    \E t \in transcripts :
        /\ t.full_text = <<"y", "o", " ", "h", "i">>
        /\ LET detail == get_transcript_with_segments(transcripts, segments, notes, t.id, t.user_id)
           IN /\ detail # None
              /\ Len(detail[1].segments) = 2
              /\ detail[1].segments[1].text = <<"y", "o">>
              /\ detail[1].segments[1].start_time = 655
              /\ detail[1].segments[2].text = <<"h", "i">>
              /\ detail[1].segments[2].start_time = 0

(***************************************************************************)
(* Auth claims.                                                            *)
(***************************************************************************)
\* Some row's email equals e ignoring letter case.
EmailKnown(us, e) == \E i \in 1..Len(us) : lower(us[i].email) = lower(e)

\* Tokens that were issued and that no row stores any more.
DeadTokens == {t \in 1..(nextToken - 1) : \A i \in 1..Len(users) : users[i].password_reset_token # Some(t)}

PasswordHashes(us) == [i \in 1..Len(us) |-> us[i].password_hash]

\* C6: a password-reset token is usable exactly once.  A reset_password that
\* succeeds with token t leaves t stored on no row, a token that is stored on no
\* row is never stored again, and reset_password with a token no row stores
\* fails and leaves every row unchanged: so every later reset_password with a
\* consumed token fails and changes no password.  reset_password with a token
\* whose expiry has passed fails, changes no password and clears that row's
\* token and expiry in the same step.
C6_TokenSingleUse ==
    [][/\ DeadTokens \subseteq DeadTokens'
       /\ \A t \in TokenInputs, p \in Passwords :
            route_reset_password(t, p) =>
              /\ call'.raised = None
              /\ call'.result.success =>
                    \A i \in 1..Len(users') : users'[i].password_reset_token # Some(t)
              /\ (\A i \in 1..Len(users) : users[i].password_reset_token # Some(t)) =>
                    /\ ~call'.result.success
                    /\ http'.status = 400
                    /\ users' = users
              /\ t \in DeadTokens =>
                    /\ ~call'.result.success
                    /\ PasswordHashes(users') = PasswordHashes(users)
              /\ \A i \in 1..Len(users) :
                    (/\ users[i].password_reset_token = Some(t)
                     /\ users[i].password_reset_expires_at # None
                     /\ users[i].password_reset_expires_at[1] < now) =>
                        /\ ~call'.result.success
                        /\ PasswordHashes(users') = PasswordHashes(users)
                        /\ users'[i].password_reset_token = None
                        /\ users'[i].password_reset_expires_at = None
                        /\ t \in DeadTokens'
      ]_vars

\* C6 witness: token 1 is the only token ever issued, it was consumed by a
\* successful reset of account 1 (a deactivated account gets a last login in no
\* other way) and the last call, a reset_password with token 1 again, failed.
C6_Witness ==
    /\ nextToken = 2
    /\ users[1].last_login_at # None
    /\ call.op = "reset_password"
    /\ call.token = Some(1)
    /\ ~call.result.success

\* C7: on every row, password_reset_token is NULL iff password_reset_expires_at is NULL.
C7_TokenAndExpiryTogether ==
    \A i \in 1..Len(users) :
        (users[i].password_reset_token = None) <=> (users[i].password_reset_expires_at = None)

\* C7 witness: one row holds a token with its expiry while the last call, a
\* reset_password with an expired token, has just cleared another row's.
C7_Witness ==
    /\ call.op = "reset_password"
    /\ call.result.error = Some("Reset link has expired. Please request a new one.")
    /\ \E i, j \in 1..Len(users) :
        /\ users[i].password_reset_token # None
        /\ users[i].password_reset_expires_at # None
        /\ users[j].password_reset_token = None
        /\ users[j].password_reset_expires_at = None
        /\ users[j].last_login_at = None
        /\ ~users[j].is_active

\* C8 as claimed: authenticate(email, password) succeeds exactly when a row whose
\* email equals the argument ignoring case is active and holds the hash of the
\* password, and every failure carries the same error text.
C8_AuthenticateUniform ==
    [][\A e \in EmailInputs, p \in Passwords :
         route_login(e, p) =>
           /\ call'.result.success <=>
                \E i \in 1..Len(users) :
                    /\ lower(users[i].email) = lower(e)
                    /\ users[i].is_active
                    /\ users[i].password_hash = hashpw(p)
           /\ ~call'.result.success => call'.result.error = Some("Invalid email or password")
      ]_vars

\* C9: register with an email that equals a stored email ignoring case is
\* rejected (a failure result, answered 400), and the table is unchanged: no row
\* is added and no field of any row changes.
C9_DuplicateEmailRejected ==
    [][\A e \in EmailInputs, p \in Passwords, d \in DisplayNames :
         (route_register(e, p, d) /\ EmailKnown(users, e)) =>
           /\ call'.raised = None
           /\ ~call'.result.success
           /\ call'.result.error = Some("Email already registered")
           /\ http'.status = 400
           /\ http'.jwt = None
           /\ users' = users
      ]_vars

\* C9 witness: "A" was refused while a row with email "a" and a password other
\* than the one offered exists.
C9_Witness ==
    /\ call.op = "register"
    /\ call.email = Some(<<"A">>)
    /\ call.raised = None
    /\ ~call.result.success
    /\ \E i \in 1..Len(users) :
        /\ users[i].email = <<"a">>
        /\ users[i].password_hash # hashpw(call.password[1])

\* C10 as claimed: the forgot-password response does not depend on the email;
\* for an email no row has (ignoring case) request_password_reset returns None
\* and changes nothing; for an email a row has, it stores the fresh token and
\* the expiry on that row and changes no other row.
C10_ForgotPassword ==
    [][\A e \in EmailInputs :
         route_forgot_password(e) =>
           /\ http' = HttpResponse(200, Some(FORGOT_MESSAGE), None)
           /\ ~EmailKnown(users, e) =>
                /\ call'.result = None
                /\ users' = users
                /\ nextToken' = nextToken
           /\ EmailKnown(users, e) =>
                /\ call'.result = Some(nextToken)
                /\ Len(users') = Len(users)
                /\ \A i \in 1..Len(users) :
                     IF lower(users[i].email) = lower(e)
                     THEN /\ users'[i].password_reset_token = Some(nextToken)
                          /\ users'[i].password_reset_expires_at = Some(now + RESET_EXPIRE_MINUTES)
                     ELSE users'[i] = users[i]
      ]_vars

\* The row holds token t and its expiry has not passed at time tm.
HoldsLiveToken(user, t, tm) ==
    /\ user.password_reset_token = Some(t)
    /\ user.password_reset_expires_at # None
    /\ user.password_reset_expires_at[1] >= tm

\* What a successful reset_password with new password p at time tm makes of row
\* i, stated field by field: the hash of p, no token, no expiry, last login tm,
\* every other field as before, every other row as before; and the result
\* carries the identity of row i.
ResetApplied(us, us2, result, i, p, tm) ==
    /\ Len(us2) = Len(us)
    /\ us2[i].password_hash = hashpw(p)
    /\ us2[i].password_reset_token = None
    /\ us2[i].password_reset_expires_at = None
    /\ us2[i].last_login_at = Some(tm)
    /\ us2[i].email = us[i].email
    /\ us2[i].display_name = us[i].display_name
    /\ us2[i].is_active = us[i].is_active
    /\ \A j \in 1..Len(us) : j # i => us2[j] = us[j]
    /\ result.success
    /\ result.error = None
    /\ result.user_id = Some(i)
    /\ result.email = Some(us[i].email)
    /\ result.display_name = Some(us[i].display_name)

ClaimedExtensions ==
    {<<".", "mp3">>, <<".", "m4a">>, <<".", "mp4">>, <<".", "wav">>,
     <<".", "webm">>, <<".", "ogg">>, <<".", "flac">>}

\* The lower-cased extension of the name is outside the allow-list.
BadExtension(filename) == lower(suffix(filename)) \notin ClaimedExtensions

\* The content type is present and neither allow-listed nor an audio/ type.
BadType(content_type) ==
    /\ content_type # None
    /\ content_type[1] \notin ALLOWED_MIME_TYPES
    /\ ~(Len(content_type[1]) > 0 /\ content_type[1][1] = "audio/")

\* The chunks are the body's bytes 0..size-1 in order, none left out or repeated.
HoldsBody(data, size) ==
    /\ \A i \in 1..Len(data) :
         /\ data[i].len >= 1
         /\ data[i].from = (IF i = 1 THEN 0 ELSE data[i - 1].from + data[i - 1].len)
    /\ (IF data = <<>> THEN 0 ELSE data[Len(data)].from + data[Len(data)].len) = size

C14_AcceptedUploadStored ==
    [][\A u \in {view'.user} \cap UserIds :
       \A f \in {x \in UploadNames : ~BadExtension(x)}, c \in {x \in UploadTypes : ~BadType(x)} :
       \A n \in {m \in UploadSizes : m <= MAX_UPLOAD_SIZE_MB * 1048576} :
         upload_voice_note(u, f, c, n) =>
           /\ view'.status = 200
           /\ view'.body # None
           /\ view'.body[1].file_size_bytes = n
           /\ view'.body[1].id \notin DOMAIN notes
           /\ DOMAIN notes' = DOMAIN notes \cup {view'.body[1].id}
           /\ \A i \in DOMAIN notes : notes'[i] = notes[i]
           /\ LET note == notes'[view'.body[1].id]
              IN /\ note.status = "uploaded"
                 /\ note.user_id = u
                 /\ note.file_size_bytes = n
                 /\ files \subseteq files'
                 /\ Cardinality(files' \ files) = 1
                 /\ \A file \in files' \ files :
                      /\ file.dir = u
                      /\ file.name = note.stored_filename
                      /\ HoldsBody(file.data, n)
                      /\ \A i \in 1..Len(file.data) : file.data[i].len <= 65536
      ]_vars

\* C14 witness: a body of exactly cap bytes was stored, in more than one chunk.
C14_Witness ==
    /\ view.op = "upload"
    /\ view.status = 200
    /\ view.body[1].file_size_bytes = MAX_UPLOAD_SIZE_MB * 1048576
    /\ \E file \in files :
         /\ file.name = view.body[1].stored_filename
         /\ Len(file.data) >= 2
         /\ HoldsBody(file.data, MAX_UPLOAD_SIZE_MB * 1048576)

\* C15 as claimed: validate_upload_metadata returns a reason exactly when the
\* extension is outside the allow-list or the content type is present and
\* neither allow-listed nor an audio/ type; the extension is judged first.
C15_ValidateMetadata ==
    view.op = "validate" =>
        LET filename == view.detail[1]
            content_type == view.detail[2]
        IN /\ view.body # None <=> (BadExtension(filename) \/ BadType(content_type))
           /\ BadExtension(filename) => view.body[1].error = "Unsupported file type"
           /\ (~BadExtension(filename) /\ BadType(content_type)) =>
                  view.body[1].error = "Invalid content type"

\* C15 amended: validate_upload_metadata returns a reason exactly when the
\* extension is outside the allow-list or the content type is a non-empty
\* string that is neither allow-listed nor an audio/ type; it returns nothing
\* otherwise, an absent or empty content type included; the extension is
\* judged first.
C15_ValidateMetadataNonEmptyType ==
    view.op = "validate" =>
        LET filename == view.detail[1]
            content_type == view.detail[2]
            bad_type == BadType(content_type) /\ content_type[1] # <<>>
        IN /\ view.body # None <=> (BadExtension(filename) \/ bad_type)
           /\ BadExtension(filename) =>
                /\ view.body # None
                /\ view.body[1].error = "Unsupported file type"
           /\ (~BadExtension(filename) /\ bad_type) =>
                /\ view.body # None
                /\ view.body[1].error = "Invalid content type"

\* C15 witness: a name with a disallowed extension and a disallowed content
\* type was refused for its extension.
C15_Witness ==
    /\ view.op = "validate"
    /\ view.detail = <<<<"a", ".", "exe">>, Some(<<"text/", "plain">>)>>
    /\ view.body # None
    /\ view.body[1].error = "Unsupported file type"

(***************************************************************************)
(* Library claims.                                                         *)
(***************************************************************************)
\* Note n exists and belongs to somebody other than u.
OwnedByOther(n, u) == n \in DOMAIN notes /\ notes[n].user_id # u

\* The tables and the disk are as they were.
LibraryUnchanged ==
    /\ notes' = notes
    /\ files' = files
    /\ transcripts' = transcripts
    /\ segments' = segments

\* Every field of a returned transcript comes from rows of user u: the
\* transcript row is u's and so is the voice note whose file name it shows.
FromRowsOf(item, u) ==
    /\ \A t \in transcripts : t.id = item.id => t.user_id = u
    /\ \A n \in DOMAIN notes : n = item.voice_note_id => notes[n].user_id = u

\* C12 as claimed: a get, delete or transcribe request by u on a note of
\* another user answers 404 and changes neither the notes, the files, the
\* transcripts nor the segments; and what the list, detail and download reads
\* return to u comes from u's voice notes, transcripts and segments only.
C12_TenantIsolation ==
    [][/\ \A u \in UserIds, n \in NoteIds :
            OwnedByOther(n, u) =>
              /\ route_get_voice_note(u, n) => (view'.status = 404 /\ LibraryUnchanged)
              /\ delete_voice_note(u, n) => (view'.status = 404 /\ LibraryUnchanged)
              /\ \A r \in NotesReqs :
                   transcribe_voice_note(r, u, n) =>
                     (resp'[r].status = 404 /\ pc'[r] = "idle" /\ LibraryUnchanged)
       /\ \A u \in UserIds :
            /\ list_voice_notes(u) =>
                 \A i \in 1..Len(view'.body) : view'.body[i].user_id = u
            /\ \A n \in NoteIds :
                 (route_get_voice_note(u, n) /\ view'.status = 200) => view'.body[1].user_id = u
            /\ list_transcripts(u, None, DEFAULT_LIMIT, 0) =>
                 \A i \in 1..Len(view'.body.items) : FromRowsOf(view'.body.items[i], u)
            /\ \A t \in TranscriptIds :
                 /\ (get_transcript(u, t) /\ view'.status = 200) =>
                      /\ FromRowsOf(view'.body[1], u)
                      /\ \A i \in 1..Len(view'.body[1].segments) :
                           view'.body[1].segments[i].transcript_id = t
                 /\ (download_transcript(u, t) /\ view'.status = 200) =>
                      \A x \in transcripts : x.id = t =>
                          /\ x.user_id = u
                          /\ \A n \in DOMAIN notes :
                               n = x.voice_note_id => notes[n].user_id = u
      ]_vars


\* text contains s as a substring, letter case ignored
ContainsIgnoringCase(text, s) ==
    \E i \in 1..(Len(text) - Len(s) + 1) :
        lower(SubSeq(text, i, i + Len(s) - 1)) = lower(s)

\* The transcripts of user u the search string selects: all of them when the
\* search is absent or empty.
Selected(u, search) ==
    {t \in transcripts :
        /\ t.user_id = u
        /\ (search = None \/ search[1] = <<>> \/ ContainsIgnoringCase(t.full_text, search[1]))}

\* The ids of the transcripts a list response shows.
ListedIds(body) == {body.items[i].id : i \in 1..Len(body.items)}

\* C16 as claimed: for every user and search string, a transcript list with
\* the default page returns exactly the user's transcripts whose full text
\* contains the search string as a case-insensitive substring, and with an
\* empty or absent search the total is the number of all the user's transcripts.
C16_SearchIsSubstringMatch ==
    [][\A u \in {view'.user} \cap UserIds : \A search \in SearchInputs :
          list_transcripts(u, search, DEFAULT_LIMIT, 0) =>
            /\ ListedIds(view'.body) = {t.id : t \in Selected(u, search)}
            /\ (search = None \/ search[1] = <<>>) =>
                 view'.body.total = Cardinality({t \in transcripts : t.user_id = u})]_vars

\* The page the claim describes: at most limit of the rows, from position offset.
ClaimedPageLength(total, limit, offset) ==
    Min(limit, IF total - offset > 0 THEN total - offset ELSE 0)

\* C17 as claimed: for every limit and offset the total is the number of all
\* transcripts matching the owner and the search filter, whatever the page
\* window, and the items are the at most limit matching transcripts from
\* position offset on, newest first, min(limit, max(0, total - offset)) of them.
C17_TotalAndPage ==
    [][\A u \in {view'.user} \cap UserIds :
         \A search \in SearchInputs, limit \in Limits \cup {DEFAULT_LIMIT}, offset \in Offsets :
          list_transcripts(u, search, limit, offset) =>
            LET matching == OrderByCreatedAtDesc(Selected(u, search))
                items == view'.body.items
            IN /\ view'.body.total = Len(matching)
               /\ Len(items) = ClaimedPageLength(view'.body.total, limit, offset)
               /\ \A i \in 1..Len(items) :
                    /\ offset + i \in 1..Len(matching)
                    /\ items[i].id = matching[offset + i].id]_vars


(***************************************************************************)
(* Download claims.                                                        *)
(***************************************************************************)
\* text.split("\n")
RECURSIVE SplitLines(_)
SplitLines(text) ==
    LET breaks == {i \in 1..Len(text) : text[i] = "\n"}
    IN IF breaks = {} THEN <<text>>
       ELSE LET b == CHOOSE i \in breaks : \A j \in breaks : i <= j
            IN <<SubSeq(text, 1, b - 1)>> \o SplitLines(SubSeq(text, b + 1, Len(text)))

\* n < 100 written with two digits
TwoDigits(n) == <<Digit(n \div 10), Digit(n % 10)>>

\* '[MM:SS] text' of a segment; start_time counts tenths of a second, MM is
\* the whole minutes in it and SS the whole seconds left
ClaimedLine(seg) ==
    LET seconds == seg.start_time \div 10
        MM == seconds \div 60
        SS == seconds - 60 * MM
    IN <<"[">> \o TwoDigits(MM) \o <<":">> \o TwoDigits(SS) \o <<"]", " ">> \o seg.text

HeaderLength == 7
FooterLength == 5

\* C18: the text of a download has, between the seven header lines and the
\* five closing lines, exactly one line per segment of the transcript, in
\* ascending segment_index order, each '[MM:SS] text' with MM the minutes and
\* SS the seconds of start_time in two digits; the header and the closing lines
\* are fixed by the transcript's data, so the text is a function of that data.
C18_DownloadText ==
    [][\A u \in {view'.user} \cap UserIds, t \in TranscriptIds :
          (download_transcript(u, t) /\ view'.status = 200) =>
            LET lines == SplitLines(view'.body[1])
                segs == {s \in segments : s.transcript_id = t}
                row == CHOOSE x \in transcripts : x.id = t
                n == Cardinality(segs)
            IN /\ Len(lines) = HeaderLength + n + FooterLength
               /\ \A i \in 1..n :
                    \E s \in segs : /\ s.segment_index = i - 1
                                    /\ lines[HeaderLength + i] = ClaimedLine(s)
               /\ lines[1] = <<"Transcript: ">> \o notes[row.voice_note_id].original_filename
               /\ lines[2] = <<"Language: ", row.language>>
               /\ lines[3] = <<"Model: ", row.model_size>>
               /\ lines[4] = <<"Date: ">> \o Decimal(row.created_at)
               /\ lines[HeaderLength + n + FooterLength - 1] = <<"Full Text:">>
               /\ lines[HeaderLength + n + FooterLength] = row.full_text]_vars

\* A download whose first segment starts 65.5 s in: its line is '[01:05] yo'.
C18_Witness ==
    /\ view.op = "download_transcript"
    /\ view.status = 200
    /\ Len(SplitLines(view.body[1])) = HeaderLength + 2 + FooterLength
    /\ SplitLines(view.body[1])[HeaderLength + 1]
         = <<"[", "0", "1", ":", "0", "5", "]", " ", "y", "o">>
    /\ SplitLines(view.body[1])[HeaderLength + 2]
         = <<"[", "0", "0", ":", "0", "0", "]", " ", "h", "i">>


(***************************************************************************)
(* Model loading claims.                                                   *)
(***************************************************************************)
\* C19 as claimed: in one process at most one model is ever constructed, and
\* every transcribe that holds a model holds that first one, however the
\* transcribe requests interleave.
C19_ModelInitializedOnce ==
    /\ modelsLoaded <= 1
    /\ \A r \in Reqs : loc[r].model \in {None, Some(1)}


(***************************************************************************)
(* Token claims.                                                           *)
(***************************************************************************)
\* Token k is one create_token issued and its expiry has not passed at time t.
IssuedAndFresh(k, t) == k \in Issued /\ k.payload.exp >= t

\* The token get_current_user takes from a request: the Bearer token if there
\* is one, else the cookie.
Presented(c) ==
    IF c.authorization # None /\ c.authorization[1].scheme = "Bearer "
    THEN Some(c.authorization[1].token) ELSE c.cookie

\* The request carries no token that was issued and is still fresh.
Unauthenticated(c, t) == Presented(c) = None \/ ~IssuedAndFresh(Presented(c)[1], t)

\* decode_token gives the payload exactly for the issued, unexpired tokens.
DecodesExactlyIssued ==
    \A k \in Issued \cup Forged :
        decode_token(k, now) = IF IssuedAndFresh(k, now) THEN Some(k.payload) ELSE None

\* Nothing but the response differs after the step.
OnlyAnswered ==
    /\ UNCHANGED <<files, nextFile>>
    /\ UNCHANGED authVars
    /\ UNCHANGED txVars
    /\ UNCHANGED mdlVars

\* A request of a protected endpoint with credentials c and HX-Request hx.
ProtectedRequest(c, hx) ==
    \/ view'.op = "upload" /\ api_upload_voice_note(c, hx)
    \/ view'.op = "list_voice_notes" /\ api_list_voice_notes(c, hx)
    \/ view'.op = "get_voice_note" /\ \E n \in NoteIds : api_get_voice_note(c, hx, n)
    \/ view'.op = "delete_voice_note" /\ \E n \in NoteIds : api_delete_voice_note(c, hx, n)

FileOfNoteExists(fs, ns, n) == FileExists(fs, ns[n].user_id, ns[n].stored_filename)

\* The ids of the notes the list returns to u.
ListedNoteIds(ns, u) ==
    {get_user_voice_notes(ns, u)[i].id : i \in 1..Len(get_user_voice_notes(ns, u))}

\* C21: a delete request by the owner of a note removes the file before the
\* row: whenever it ends, with or without the row deleted, the file is gone,
\* and the row is never deleted while the file stays.  Once it has answered 200
\* the note is not returned to the owner by get (404) or list.  A delete of a
\* note that does not exist or is another user's answers 404 and changes
\* neither the notes, the files, the transcripts nor the segments.
C21_DeleteRemovesFileThenRow ==
    [][\A u \in {view'.user} \cap UserIds, n \in NoteIds :
          (delete_voice_note(u, n) \/ delete_voice_note_commit_fails(u, n)) =>
            IF get_voice_note(notes, n, u) = None
            THEN view'.status = 404 /\ LibraryUnchanged
            ELSE /\ ~FileOfNoteExists(files', notes, n)
                 /\ view'.status \in {200, 500}
                 /\ view'.status = 200 =>
                      /\ get_voice_note(notes', n, u) = None
                      /\ n \notin ListedNoteIds(notes', u)
                      /\ n \notin DOMAIN notes'
                 /\ view'.status = 500 => notes' = notes]_vars

\* A note was uploaded, a transcription of it finished, and its owner has
\* deleted it: the row and the file are gone.
C21_Witness ==
    /\ view.op = "delete_voice_note"
    /\ view.status = 200
    /\ notes = <<>>
    /\ files = {}
    /\ transcripts # {}


\* The request's cookie holds no token that was issued and is still fresh.
UnauthenticatedWeb(c, t) == c.cookie = None \/ ~IssuedAndFresh(c.cookie[1], t)

\* A request of a protected web route with credentials c and HX-Request hx.
WebRequest(c, hx) ==
    \/ view'.op = "upload_page" /\ upload_page(c, hx)
    \/ view'.op = "transcription_status_partial"
         /\ \E n \in NoteIds : transcription_status_partial(c, hx, n)

\* The answer to an authentication failure: HX-Redirect for a request with
\* HX-Request, else 401 under /api/, else 302 to /login; never a body.
FailureAnswer(hx, api_path) ==
    /\ view'.body = None
    /\ IF hx THEN view'.detail = "HX-Redirect: /login"
       ELSE IF api_path THEN view'.status = 401
       ELSE view'.status = 302 /\ view'.detail = "Location: /login"

\* C22: a request without a valid token (none, forged, malformed, expired) is
\* answered with HX-Redirect: /login if it carries HX-Request, else with a 401
\* if its path is under /api/, else with a 302 to /login; the operation is not
\* run: nothing but the response changes, and the response has no body.
C22_AuthFailureAnswers ==
    [][\A hx \in BOOLEAN :
         /\ \A c \in {x \in Credentials : Unauthenticated(x, now)} :
              (view' # view /\ ProtectedRequest(c, hx)) => (OnlyAnswered /\ FailureAnswer(hx, TRUE))
         /\ \A c \in {x \in Credentials : UnauthenticatedWeb(x, now)} :
              (view' # view /\ WebRequest(c, hx)) => (OnlyAnswered /\ FailureAnswer(hx, FALSE))]_vars

\* A page request with an expired cookie was redirected to /login while the
\* user has a voice note the page would have shown.
C22_Witness ==
    /\ view.op = "upload_page"
    /\ view.status = 302
    /\ now > JWT_EXPIRE_MINUTES
    /\ notes # <<>>


\* C23 as claimed: register ends in a success or a failure result, never in an
\* exception; on success the row added holds the email trimmed and lower-cased;
\* an email whose trimmed, lower-cased form is already stored yields the
\* 'Email already registered' failure and no row; no two rows ever hold the
\* same email.
C23_RegisterNormalises ==
    [][\A e \in EmailInputs, p \in Passwords, d \in DisplayNames :
         route_register(e, p, d) =>
           /\ call'.raised = None
           /\ call'.result.success =>
                /\ Len(users') = Len(users) + 1
                /\ users'[Len(users')].email = strip(lower(e))
           /\ (\E i \in 1..Len(users) : users[i].email = strip(lower(e))) =>
                /\ ~call'.result.success
                /\ call'.result.error = Some("Email already registered")
                /\ users' = users
           /\ \A i, j \in 1..Len(users') : users'[i].email = users'[j].email => i = j
      ]_vars


\* C24: a reset token issued at time t is stored with the expiry t + 30; a
\* stored token always has an expiry; reset_password with a stored token
\* succeeds at every time up to and including the expiry and is rejected as
\* expired at every later time, and a rejected attempt leaves every password
\* hash as it was.
C24_ResetTokenExpiry ==
    /\ [][\A e \in EmailInputs :
            (route_forgot_password(e) /\ call'.result # None) =>
              \E i \in 1..Len(users') :
                /\ users'[i].password_reset_token = call'.result
                /\ users'[i].password_reset_expires_at = Some(now + RESET_EXPIRE_MINUTES)]_vars
    /\ [](\A i \in 1..Len(users) :
            users[i].password_reset_token # None => users[i].password_reset_expires_at # None)
    /\ [][\A k \in TokenInputs, p \in Passwords :
            (route_reset_password(k, p) /\ UsersByToken(users, k) # {}) =>
              \A i \in UsersByToken(users, k) :
                IF now <= users[i].password_reset_expires_at[1]
                THEN /\ call'.result.success
                     /\ users'[i].password_hash = hashpw(p)
                ELSE /\ ~call'.result.success
                     /\ call'.result.error = Some("Reset link has expired. Please request a new one.")
                     /\ \A j \in 1..Len(users) : users'[j].password_hash = users[j].password_hash]_vars

\* C24 witness: a reset succeeded exactly at the expiry of a token issued at
\* time 0, for an account whose password it changed.
C24_Witness ==
    /\ call.op = "reset_password"
    /\ call.result.success
    /\ now = RESET_EXPIRE_MINUTES
    /\ \E i \in 1..Len(users) :
        /\ call.result.user_id = Some(i)
        /\ users[i].password_hash = hashpw(call.password[1])
        /\ users[i].last_login_at = Some(now)


\* C25 as claimed: when a transcribe call that had committed 'transcribing'
\* ends, by returning or by raising, the note's committed status is 'completed'
\* or 'failed', never 'transcribing'.
C25_CallEndsCompletedOrFailed ==
    [][\A r \in Reqs :
         (pc[r] \in {"marked", "decoded"} /\ pc'[r] = "idle" /\ req[r].note \in DOMAIN notes') =>
           notes'[req[r].note].status \in {"completed", "failed"}]_vars


\* C26 as claimed: of two transcribe requests for the same note, at most one is
\* past the status guard at any time, so the model never runs for both.
C26_OneRequestPassesGuard ==
    \A r1, r2 \in Reqs :
        (r1 # r2 /\ pc[r1] # "idle" /\ pc[r2] # "idle") => req[r1].note # req[r2].note


\* The transcript rows of voice note n, and the segment rows of those.
TranscriptsOfNote(n) == {t \in transcripts : t.voice_note_id = n}
SegmentsOfNote(n) == {g \in segments : \E t \in TranscriptsOfNote(n) : g.transcript_id = t.id}

\* C27 as claimed: a voice note has status 'completed' exactly if a committed
\* transcript for it exists; a note in any other status has no transcript and
\* no segment rows.
C27_CompletedIffTranscript ==
    \A n \in DOMAIN notes :
        /\ notes[n].status = "completed" <=> TranscriptsOfNote(n) # {}
        /\ notes[n].status # "completed" => SegmentsOfNote(n) = {}


\* C28 as claimed: every transcript refers to an existing voice note of the
\* same owner, and every segment refers to an existing transcript; so deleting
\* a voice note leaves no transcript or segment row that refers to it.
C28_NoOrphanRows ==
    /\ \A t \in transcripts :
        /\ t.voice_note_id \in DOMAIN notes
        /\ notes[t.voice_note_id].user_id = t.user_id
    /\ \A g \in segments : \E t \in transcripts : t.id = g.transcript_id


\* No two users hold the same reset token (each row has one token column).
OneTokenPerUser ==
    \A i, j \in 1..Len(users) :
        (users[i].password_reset_token # None
           /\ users[i].password_reset_token = users[j].password_reset_token) => i = j

\* A request that stores a token on a user who holds one replaces it and
\* restarts the expiry, and no user holds the earlier token afterwards.
SecondRequestReplaces ==
    [][\A e \in EmailInputs :
         (route_forgot_password(e) /\ call'.result # None) =>
           \A i \in 1..Len(users) :
             (users'[i] # users[i] /\ users[i].password_reset_token # None) =>
               /\ users'[i].password_reset_token = call'.result
               /\ users'[i].password_reset_token # users[i].password_reset_token
               /\ users'[i].password_reset_expires_at = Some(now + RESET_EXPIRE_MINUTES)
               /\ UsersByToken(users', users[i].password_reset_token[1]) = {}]_vars

\* reset_password with a token no user holds is rejected and changes nothing.
ReplacedTokenRejected ==
    [][\A k \in TokenInputs, p \in Passwords :
         (route_reset_password(k, p) /\ UsersByToken(users, k) = {}) =>
           /\ ~call'.result.success
           /\ users' = users]_vars

\* A forgot-password request changes only the user whose email it names.
RequestChangesNamedUserOnly ==
    [][\A e \in EmailInputs :
         route_forgot_password(e) =>
           \A j \in 1..Len(users) :
             users'[j] # users[j] => lower(users[j].email) = lower(e)]_vars

\* C29 as claimed: each user holds at most one live reset token; a second
\* request for the same user replaces the stored token and restarts the
\* expiry, after which reset_password rejects the earlier token and changes no
\* password; and a request for one user never changes another user's token.
C29_OneLiveResetToken ==
    /\ []OneTokenPerUser
    /\ SecondRequestReplaces
    /\ ReplacedTokenRejected
    /\ RequestChangesNamedUserOnly


\* C30 as claimed: a response that carries a token (login, registration, the
\* auto-login of reset-password) is for a user whose is_active flag is true.
C30_NoTokenForInactive ==
    http.jwt # None => users[http.jwt[1]].is_active

====
